---- MODULE Spec2Model ----
(***************************************************************************)
(* A model of the httpform binding engine: the schema compiler             *)
(* (reflection.go), the schema cache of a Configuration (lookupStruct),    *)
(* and the multi-source merge of Configuration.DecodeVal.                  *)
(*                                                                         *)
(* Byte strings and text are TLA+ strings.  What the standard library does *)
(* with them (encoding/json, net/url, mime/multipart, strconv) is given by *)
(* the operators of the section "Collaborators".                           *)
(***************************************************************************)
EXTENDS Integers, Sequences, FiniteSets, TLC

VARIABLES
    conf,         \* the Configuration's policy fields
    structCache,  \* conf.structCache: record type -> address of a structMeta (0: no entry)
    heap,         \* the structMeta objects allocated so far; an address is an index
    compiled,     \* per record type, how many times examineStruct has run
    pc,           \* per goroutine, its position in DecodeVal / EncodeToValues
    call          \* per goroutine, the arguments and locals of its call

vars == <<conf, structCache, heap, compiled, pc, call>>

----------------------------------------------------------------------------
(* Bounds of the model *)

\* goroutines that use one Configuration at the same time
NumProcs == 2
\* key/value pairs in a request's query string
MaxQuery == 2

----------------------------------------------------------------------------
(* Program constants *)

StatusBadRequest == 400
StatusUnsupportedMediaType == 415

formContentType == "application/x-www-form-urlencoded"
multipartFormContentType == "multipart/form-data"
jsonContentType == "application/json"

noSrc == "none"
pathSrc == "path"
formSrc == "form"
cookieSrc == "cookie"
headerSrc == "header"
requestSrc == "request"
urlSrc == "url"
queryValuesSrc == "query values"
headersSrc == "headers"
methodSrc == "method"
isSaveSrc == "issave"
rawBodySrc == "rawbody"
fullBodySrc == "fullbody"

\* source.IsNamed: v < requestSrc
IsNamed(src) == src \in {noSrc, pathSrc, formSrc, cookieSrc, headerSrc}

----------------------------------------------------------------------------
(* Values of record fields *)

\* an integer wider than the checker's own: a sign and the decimal digits of
\* the magnitude, most significant first, without leading zeros (zero is <<0>>)
DigitChars == <<"0", "1", "2", "3", "4", "5", "6", "7", "8", "9">>
IsDigit(ch) == \E d \in 1..10 : DigitChars[d] = ch
DigitOf(ch) == (CHOOSE d \in 1..10 : DigitChars[d] = ch) - 1
CharAt(s, i) == SubSeq(s, i, i)

RECURSIVE Canon(_)
Canon(d) == IF Len(d) > 1 /\ Head(d) = 0 THEN Canon(Tail(d)) ELSE d

RECURSIVE DigitsOf(_)
DigitsOf(n) == IF n < 10 THEN <<n>> ELSE Append(DigitsOf(n \div 10), n % 10)

RECURSIVE StrDigits(_)
StrDigits(s) ==
    IF s = "" THEN <<>> ELSE <<DigitOf(CharAt(s, 1))>> \o StrDigits(SubSeq(s, 2, Len(s)))

\* a < b for magnitudes
RECURSIVE LexLess(_, _)
LexLess(a, b) ==
    IF a = <<>> THEN FALSE
    ELSE IF Head(a) # Head(b) THEN Head(a) < Head(b)
    ELSE LexLess(Tail(a), Tail(b))
Less(a, b) == Len(a) < Len(b) \/ (Len(a) = Len(b) /\ LexLess(a, b))

\* a - b for magnitudes with b <= a
RECURSIVE SubFrom(_, _, _, _)
SubFrom(a, b, i, borrow) ==
    IF i = 0 THEN <<>>
    ELSE LET bi == IF i > Len(a) - Len(b) THEN b[i - (Len(a) - Len(b))] ELSE 0
             d == a[i] - bi - borrow
         IN  Append(SubFrom(a, b, i - 1, IF d < 0 THEN 1 ELSE 0), IF d < 0 THEN d + 10 ELSE d)
Minus(a, b) == Canon(SubFrom(a, b, Len(a), 0))

Val(k, s, i, m) == [k |-> k, s |-> s, i |-> i, m |-> m]
StrV(s) == Val("string", s, 0, <<>>)
BytesV(s) == Val("bytes", s, 0, <<>>)
\* a Go int of a small value
IntV(i) == Val("int", "", IF i < 0 THEN 1 ELSE 0, DigitsOf(IF i < 0 THEN -i ELSE i))
BoolV(b) == Val("bool", "", IF b THEN 1 ELSE 0, <<>>)
NilV == Val("nil", "", 0, <<>>)
\* a decoded JSON object: map[string]any, its members in the document's order
ObjV(m) == Val("object", "", 0, m)
\* one of the request-derived objects (*http.Request, *url.URL, url.Values, http.Header)
RefV(k, m) == Val(k, "", 0, m)

\* reflect.Zero of a field type
SignedKinds == {"int", "int8", "int16", "int32", "int64"}
UnsignedKinds == {"uint", "uint8", "uint16", "uint32", "uint64", "uintptr"}
IntegerKinds == SignedKinds \cup UnsignedKinds
\* an integer of a kind: neg is 1 for a negative value
NumV(kind, neg, mag) == Val(kind, "", IF mag = <<0>> THEN 0 ELSE neg, mag)
\* a slice type is written "[]" before its element type
IsSlice(typ) == Len(typ) > 2 /\ SubSeq(typ, 1, 2) = "[]"
Elem(typ) == SubSeq(typ, 3, Len(typ))
\* a slice: i is 0 for the nil slice, m holds the items
SliceV(typ, items) == Val(typ, "", 1, items)

ZeroOf(typ) ==
    CASE typ = "string" -> StrV("")
      [] typ \in IntegerKinds -> NumV(typ, 0, <<0>>)
      [] typ = "bytes" -> BytesV("")
      [] typ = "bool" -> BoolV(FALSE)
      [] IsSlice(typ) -> Val(typ, "", 0, <<>>)
      [] OTHER -> NilV

EmptyMap == [n \in {} |-> NilV]

----------------------------------------------------------------------------
(* Record types: the struct declarations Decode is called with *)

Fld(name, typ, json, form) ==
    [name |-> name, exported |-> TRUE, typ |-> typ, anonymous |-> FALSE,
     json |-> json, form |-> form]
\* an embedded struct without tags
Emb(typ) ==
    [name |-> typ, exported |-> TRUE, typ |-> typ, anonymous |-> TRUE,
     json |-> <<>>, form |-> <<>>]
\* a tag that is absent (Tag.Lookup returns false); a present tag is the
\* sequence strings.Split(tag, ",") yields
NoTag == <<>>

\* struct{ Foo K `json:"foo"` } for a scalar kind K, as TestDecode_query_int has
\* it for int
ScalarKinds == IntegerKinds \cup {"bool", "string"}
KindType(kind) == "Foo_" \o kind

StructFields(T) ==
    CASE T = "Empty" -> <<>>
      [] T = "Foo" -> << Fld("Foo", "string", <<"foo">>, NoTag) >>
      [] T = "FooN" -> << Fld("Foo", "string", <<"foo">>, <<"foo">>),
                          Fld("N", "int", <<"n">>, <<"n">>) >>
      [] T = "Inner" -> << Fld("Foo", "string", <<"foo">>, NoTag) >>
      [] T = "Outer" -> << Emb("Inner") >>
      [] T = "Hdr" -> << Fld("Foo", "string", <<"-">>, <<"X-Foo", "header">>) >>
      [] T = "HdrOpt" -> << Fld("Foo", "string", <<"-">>, <<"X-Foo", "header", "optional">>) >>
      [] T = "HdrInt" -> << Fld("Foo", "int", <<"-">>, <<"X-Foo", "header">>) >>
      [] T = "Raw" -> << Fld("Body", "string", <<"-">>, <<"", "rawbody">>) >>
      [] T = "RawBytes" -> << Fld("Body", "bytes", <<"-">>, <<"", "rawbody">>) >>
      [] T = "RawFoo" -> << Fld("Body", "string", <<"-">>, <<"", "rawbody">>),
                            Fld("Foo", "string", <<"foo">>, NoTag) >>
      [] T = "Full" -> << Fld("Body", "any", <<"-">>, <<"", "fullbody">>) >>
      [] T = "FullFoo" -> << Fld("Body", "any", <<"-">>, <<"", "fullbody">>),
                             Fld("Foo", "string", <<"foo">>, NoTag) >>
      [] T = "Headers" -> << Fld("Foo", "headers", <<"-">>, NoTag) >>
      [] T = "Untagged" -> << Fld("Foo", "string", NoTag, NoTag) >>
      [] T = "List" -> << Fld("Foo", "[]string", <<"foo">>, NoTag) >>
      [] T = "ListComma" -> << Fld("Foo", "[]string", <<"foo">>, <<"", "sep=comma">>) >>
      [] T = "ListInts" -> << Fld("Foo", "[]int", <<"foo">>, <<"", "sep=colon">>) >>
      [] T \in {KindType(k) : k \in ScalarKinds} ->
            << Fld("Foo", SubSeq(T, 5, Len(T)), <<"foo">>, NoTag) >>
      [] T = "Dup" -> << Fld("A", "string", <<"foo">>, NoTag),
                         Fld("B", "string", <<"foo">>, NoTag) >>
      [] T = "DupSrc" -> << Fld("Foo", "string", <<"foo">>, NoTag),
                            Fld("H", "string", <<"-">>, <<"foo", "header">>) >>
      [] T = "HdrDash" -> << Fld("Foo", "string", <<"foo">>, NoTag),
                             Fld("H", "string", <<"-", "">>, <<"X-Foo", "header", "optional">>) >>
      [] T = "HdrNoSkip" -> << Fld("Foo", "string", <<"foo">>, NoTag),
                               Fld("H", "string", <<"h">>, <<"X-Foo", "header", "optional">>) >>
      [] T = "FormDash" -> << Fld("Keep", "string", <<"keep">>, NoTag),
                              Fld("Foo", "string", <<"foo">>, <<"-">>) >>
      [] T = "OnlyDash" -> << Fld("Foo", "string", <<"foo">>, <<"-", "rawbody">>) >>
      [] T = "Path" -> << Fld("ID", "string", <<"-">>, <<"id", "path">>) >>
      [] T = "PathOpt" -> << Fld("ID", "string", <<"-">>, <<"id", "path", "optional">>) >>
      [] T = "PathInt" -> << Fld("ID", "int", <<"-">>, <<"id", "path">>) >>
      [] T = "NotInBody" -> << Fld("Foo", "string", <<"foo">>, NoTag),
                               Fld("Q", "string", <<"q">>, <<"", "notinbody">>) >>
      [] T = "OnlyNotInBody" -> << Fld("Q", "string", <<"q">>, <<"", "notinbody">>) >>
      [] T = "PathTwo" -> << Fld("ID", "string", <<"-">>, <<"id", "path">>),
                             Fld("IDX", "string", <<"-">>, <<"idx", "path">>) >>
      [] T = "PathHdrCk" -> << Fld("ID", "string", <<"-">>, <<"id", "path">>),
                               Fld("Foo", "string", <<"-">>, <<"X-Foo", "header">>),
                               Fld("Sid", "int", <<"-">>, <<"sid", "cookie">>) >>
      [] T = "JSONOnly" -> << Fld("Foo", "string", <<"foo">>, NoTag),
                              Fld("Data", "any", <<"data">>, <<"", "jsononly">>) >>
      [] T = "JSONDash" -> << Fld("Keep", "string", <<"keep">>, NoTag),
                              Fld("Foo", "string", <<"-">>, NoTag) >>
      [] T = "OnlyJSONDash" -> << Fld("Foo", "string", <<"-">>, NoTag) >>
      [] T = "TwoInts" -> << Fld("A", "int", <<"a">>, NoTag),
                             Fld("B", "int", <<"b">>, NoTag) >>
      [] OTHER -> <<>>

RecordTypes ==
    {"Empty", "Foo", "FooN", "Inner", "Outer", "Hdr", "HdrOpt", "HdrInt",
     "Raw", "RawBytes", "RawFoo", "Full", "FullFoo", "Headers", "Untagged",
     "Path", "PathOpt", "PathInt", "PathHdrCk", "TwoInts", "JSONOnly", "JSONDash", "OnlyJSONDash",
     "List", "ListComma", "ListInts", "Dup", "DupSrc", "HdrDash", "HdrNoSkip",
     "FormDash", "OnlyDash", "PathTwo", "NotInBody", "OnlyNotInBody"}
    \cup {KindType(k) : k \in ScalarKinds}

IsStruct(typ) == typ \in RecordTypes

----------------------------------------------------------------------------
(* Collaborators: encoding/json, net/url, mime, mime/multipart, strconv,    *)
(* net/http, given by what they return on the texts of the model           *)

Quote(s) == "\"" \o s \o "\""

\* mime.ParseMediaType as determineMIMEType and ParseForm use it: the media
\* type of a Content-Type header value, "" when it does not parse
ParseMediaType(s) ==
    CASE s = "application/json" -> "application/json"
      [] s = "application/json; charset=utf-8" -> "application/json"
      [] s = "application/x-www-form-urlencoded" -> "application/x-www-form-urlencoded"
      [] s = "multipart/form-data; boundary=b" -> "multipart/form-data"
      [] s = "text/plain" -> "text/plain"
      [] OTHER -> ""

\* the JSON documents of the model: the members of the object a text holds
BodyFooBar == "{\"foo\":\"bar\"}"
BodyFooQux == "{\"foo\":\"qux\"}"
BodyFooZzz == "{\"foo\":\"bar\",\"zzz\":\"1\"}"
BodyNBad == "{\"n\":\"x\"}"
BodyUpper == "{\"Foo\":\"up\"}"
BodyDash == "{\"-\":\"x\"}"
BodyQ == "{\"q\":\"x\"}"
BodyInvalid == "<\"foo\": \"bar\" }"
BodyForm == "foo=baz"
BodyFormFallback == "_body=%7B%22foo%22%3A%22qux%22%7D"
BodyMultipart == "--b\r\nContent-Disposition: form-data; name=\"foo\"\r\n\r\nmp\r\n--b--\r\n"

\* json.Decoder.Decode reading one value from a text: ok and the members of the
\* object, or the decoder's error
JSONRead(text) ==
    CASE text = BodyFooBar -> [ok |-> TRUE, members |-> << <<"foo", StrV("bar")>> >>, err |-> ""]
      [] text = BodyFooQux -> [ok |-> TRUE, members |-> << <<"foo", StrV("qux")>> >>, err |-> ""]
      [] text = BodyFooZzz ->
            [ok |-> TRUE, members |-> << <<"foo", StrV("bar")>>, <<"zzz", StrV("1")>> >>, err |-> ""]
      [] text = BodyNBad -> [ok |-> TRUE, members |-> << <<"n", StrV("x")>> >>, err |-> ""]
      [] text = BodyUpper -> [ok |-> TRUE, members |-> << <<"Foo", StrV("up")>> >>, err |-> ""]
      [] text = BodyQ -> [ok |-> TRUE, members |-> << <<"q", StrV("x")>> >>, err |-> ""]
      [] text = BodyDash -> [ok |-> TRUE, members |-> << <<"-", StrV("x")>> >>, err |-> ""]
      [] text = "{}" -> [ok |-> TRUE, members |-> <<>>, err |-> ""]
      [] text = "" -> [ok |-> FALSE, members |-> <<>>, err |-> "EOF"]
      [] OTHER -> [ok |-> FALSE, members |-> <<>>,
                   err |-> "invalid character looking for beginning of value"]

\* url.ParseQuery of a request body: the key/value pairs in the body's order.
\* A text without '=' and '&' is one key with an empty value.
ParseQueryText(text) ==
    CASE text = "" -> <<>>
      [] text = BodyForm -> << <<"foo", "baz">> >>
      [] text = BodyFormFallback -> << <<"_body", BodyFooQux>> >>
      [] OTHER -> << <<text, "">> >>

\* multipart.Reader.ReadForm of a request body under the boundary of the header
ReadMultipartForm(text) ==
    CASE text = BodyMultipart -> [ok |-> TRUE, pairs |-> << <<"foo", "mp">> >>, err |-> ""]
      [] text = "" -> [ok |-> FALSE, pairs |-> <<>>, err |-> "multipart: NextPart: EOF"]
      [] OTHER -> [ok |-> FALSE, pairs |-> <<>>, err |-> "multipart: NextPart: EOF"]

\* an item of a query string that url.ParseQuery rejects
BadPair == <<"%zz", "">>

\* strings.EqualFold on the names of the model
ToLower(s) ==
    CASE s = "Foo" -> "foo"
      [] s = "N" -> "n"
      [] s = "Body" -> "body"
      [] s = "ID" -> "id"
      [] s = "Keep" -> "keep"
      [] s = "Q" -> "q"
      [] s = "Sid" -> "sid"
      [] s = "A" -> "a"
      [] s = "B" -> "b"
      [] OTHER -> s
EqualFold(a, b) == ToLower(a) = ToLower(b)

\* strconv.IntSize on the platforms the package is built for
IntSize == 64
BitSize(bitSize) == IF bitSize = 0 THEN IntSize ELSE bitSize

\* 1<<bitSize - 1 and 1<<(bitSize-1), as magnitudes
MaxUint(bitSize) ==
    CASE bitSize = 8 -> StrDigits("255")
      [] bitSize = 16 -> StrDigits("65535")
      [] bitSize = 32 -> StrDigits("4294967295")
      [] OTHER -> StrDigits("18446744073709551615")
IntCutoff(bitSize) ==
    CASE bitSize = 8 -> StrDigits("128")
      [] bitSize = 16 -> StrDigits("32768")
      [] bitSize = 32 -> StrDigits("2147483648")
      [] OTHER -> StrDigits("9223372036854775808")
TwoTo64 == StrDigits("18446744073709551616")

\* the digit loop of strconv.ParseUint in base 10: the first character that
\* is no digit is a syntax error, the first prefix above maxVal a range error
RECURSIVE scanDigits(_, _, _, _)
scanNext(s, i, n1, maxVal) ==
    IF Less(maxVal, n1) THEN [err |-> "value out of range", mag |-> maxVal]
    ELSE scanDigits(s, i + 1, n1, maxVal)
scanDigits(s, i, acc, maxVal) ==
    IF i > Len(s) THEN [err |-> "", mag |-> acc]
    ELSE IF ~IsDigit(CharAt(s, i)) THEN [err |-> "invalid syntax", mag |-> <<0>>]
    ELSE scanNext(s, i, Canon(Append(acc, DigitOf(CharAt(s, i)))), maxVal)

\* strconv.ParseUint(s, 10, bitSize): [err, mag]
parseUint(s, bitSize) ==
    IF s = "" THEN [err |-> "invalid syntax", mag |-> <<0>>]
    ELSE scanDigits(s, 1, <<0>>, MaxUint(BitSize(bitSize)))

NumError(fn, s, err) == "strconv." \o fn \o ": parsing " \o Quote(s) \o ": " \o err

\* strconv.ParseUint(s, 10, bitSize): [ok, neg, mag, err]
uintResult(s, r) ==
    IF r.err # "" THEN [ok |-> FALSE, neg |-> 0, mag |-> <<0>>, err |-> NumError("ParseUint", s, r.err)]
    ELSE [ok |-> TRUE, neg |-> 0, mag |-> r.mag, err |-> ""]
ParseUint(s, bitSize) == uintResult(s, parseUint(s, bitSize))

\* the range check of strconv.ParseInt on the magnitude read
checkInt(s, neg, r, cutoff) ==
    IF r.err = "invalid syntax"
    THEN [ok |-> FALSE, neg |-> 0, mag |-> <<0>>, err |-> NumError("ParseInt", s, r.err)]
    ELSE IF r.err # "" \/ (neg = 0 /\ ~Less(r.mag, cutoff)) \/ (neg = 1 /\ Less(cutoff, r.mag))
    THEN [ok |-> FALSE, neg |-> 0, mag |-> <<0>>,
          err |-> NumError("ParseInt", s, "value out of range")]
    ELSE [ok |-> TRUE, neg |-> IF r.mag = <<0>> THEN 0 ELSE neg, mag |-> r.mag, err |-> ""]

\* strconv.ParseInt(s, 10, bitSize): a sign, then ParseUint of the rest
ParseInt(s, bitSize) ==
    IF s = ""
    THEN [ok |-> FALSE, neg |-> 0, mag |-> <<0>>, err |-> NumError("ParseInt", s, "invalid syntax")]
    ELSE IF CharAt(s, 1) \in {"+", "-"}
    THEN checkInt(s, IF CharAt(s, 1) = "-" THEN 1 ELSE 0,
                  parseUint(SubSeq(s, 2, Len(s)), bitSize), IntCutoff(BitSize(bitSize)))
    ELSE checkInt(s, 0, parseUint(s, bitSize), IntCutoff(BitSize(bitSize)))

\* strconv.FormatInt(v, 10), strconv.FormatUint(v, 10)
RECURSIVE FormatDigits(_)
FormatDigits(d) == IF d = <<>> THEN "" ELSE DigitChars[Head(d) + 1] \o FormatDigits(Tail(d))
\* the numeral written without its sign
FormatInt_noSign(neg, mag) == FormatDigits(mag)
FormatInt(neg, mag) == (IF neg = 1 THEN "-" ELSE "") \o FormatDigits(mag)
FormatUint(mag) == FormatDigits(mag)

\* the conversions int64(v) of a uint64 and uint64(v) of an int64: two's
\* complement on 64 bits
ToInt64(mag) ==
    IF Less(mag, IntCutoff(64)) THEN [neg |-> 0, mag |-> mag]
    ELSE [neg |-> 1, mag |-> Minus(TwoTo64, mag)]
\* the magnitude of the int64 taken for the uint64
ToUint64_magnitude(neg, mag) == mag
ToUint64(neg, mag) == IF neg = 1 THEN Minus(TwoTo64, mag) ELSE mag

\* strings.Fields: the maximal runs of characters that are not white space
RECURSIVE fieldsFrom(_, _, _)
fieldsFrom(s, i, cur) ==
    IF i > Len(s) THEN IF cur = "" THEN <<>> ELSE <<cur>>
    ELSE IF CharAt(s, i) = " "
    THEN (IF cur = "" THEN <<>> ELSE <<cur>>) \o fieldsFrom(s, i + 1, "")
    ELSE fieldsFrom(s, i + 1, cur \o CharAt(s, i))
Fields(s) == fieldsFrom(s, 1, "")

\* the first value of a key in a sequence of key/value pairs, "" when there is
\* none: url.Values.Get, http.Header.Get
RECURSIVE Get(_, _)
Get(pairs, key) ==
    IF pairs = <<>> THEN ""
    ELSE IF Head(pairs)[1] = key THEN Head(pairs)[2]
    ELSE Get(Tail(pairs), key)

Keys(pairs) == {pairs[i][1] : i \in DOMAIN pairs}

\* the values of one key, in order
RECURSIVE ValuesOf(_, _)
ValuesOf(pairs, key) ==
    IF pairs = <<>> THEN <<>>
    ELSE IF Head(pairs)[1] = key THEN <<Head(pairs)[2]>> \o ValuesOf(Tail(pairs), key)
    ELSE ValuesOf(Tail(pairs), key)

----------------------------------------------------------------------------
(* Codec registry (parser.go) *)

\* ParseBool, parseBoolDefault (util.go)
ParseBool(str) ==
    IF str \in {"1", "t", "T", "y", "Y", "true", "TRUE", "True", "on", "ON", "On",
                "yes", "YES", "Yes"}
    THEN [ok |-> TRUE, v |-> TRUE]
    ELSE IF str \in {"0", "f", "F", "n", "N", "false", "FALSE", "False", "off", "OFF",
                     "Off", "no", "NO", "No"}
    THEN [ok |-> TRUE, v |-> FALSE]
    ELSE [ok |-> FALSE, v |-> FALSE]

parseBoolDefault(str, dflt) == IF ParseBool(str).ok THEN ParseBool(str).v ELSE dflt

\* the bitSize pickParser passes to strconv for an integer kind
KindBits(kind) ==
    CASE kind \in {"int", "uint"} -> 0
      [] kind \in {"int8", "uint8"} -> 8
      [] kind \in {"int16", "uint16"} -> 16
      [] kind \in {"int32", "uint32"} -> 32
      [] OTHER -> 64

\* the types pickParser and pickStringer have a case for
RECURSIVE HasCodec(_)
HasCodec(typ) ==
    \/ typ \in {"string", "bool", "bytes"} \cup IntegerKinds
    \/ IsSlice(typ) /\ HasCodec(Elem(typ))

\* a nil ParserFunc or StringerFunc
NoCodec == [typ |-> "nil", sep |-> ""]

\* pickParser: the parser of a field type, named by the type it parses and the
\* representation options it was picked with; "nil" when the type has none
pickParser(typ, ropt) == IF HasCodec(typ) THEN [typ |-> typ, sep |-> ropt] ELSE NoCodec

\* pickStringer
pickStringer(typ, ropt) == IF HasCodec(typ) THEN [typ |-> typ, sep |-> ropt] ELSE NoCodec

ParseOK(v) == [ok |-> TRUE, v |-> v, err |-> ""]
ParseErr(err) == [ok |-> FALSE, v |-> NilV, err |-> err]

\* a ParserFunc of a signed kind
numResult(kind, r) == IF r.ok THEN ParseOK(NumV(kind, r.neg, r.mag)) ELSE ParseErr(r.err)
parseSigned(kind, s) == numResult(kind, ParseInt(s, KindBits(kind)))

\* a ParserFunc of an unsigned kind; a uint64 goes through int64 and back
viaInt64(w) == ToUint64(w.neg, w.mag)
unsignedResult(kind, r) ==
    IF ~r.ok THEN ParseErr(r.err)
    ELSE IF kind = "uint64" THEN ParseOK(NumV(kind, 0, viaInt64(ToInt64(r.mag))))
    ELSE ParseOK(NumV(kind, 0, r.mag))
parseUnsigned(kind, s) == unsignedResult(kind, ParseUint(s, KindBits(kind)))

\* the ParserFunc of a type that is no slice
parseScalar(typ, s) ==
    CASE typ = "string" -> ParseOK(StrV(s))
      [] typ = "bool" ->
            IF s = "" THEN ParseOK(BoolV(FALSE))
            ELSE IF ParseBool(s).ok THEN ParseOK(BoolV(ParseBool(s).v))
            ELSE ParseErr("invalid bool value " \o Quote(s))
      [] typ \in SignedKinds -> IF s = "" THEN ParseOK(ZeroOf(typ)) ELSE parseSigned(typ, s)
      [] typ \in UnsignedKinds -> IF s = "" THEN ParseOK(ZeroOf(typ)) ELSE parseUnsigned(typ, s)
      [] OTHER -> ParseOK(BytesV(s))

\* lines 209-215: the child parser on every item; the first error is returned
RECURSIVE parseItems(_, _, _)
appendItem(elem, itemStrs, acc, r) ==
    IF ~r.ok THEN ParseErr(r.err)
    ELSE parseItems(elem, Tail(itemStrs), Append(acc, r.v))
parseItems(elem, itemStrs, acc) ==
    IF itemStrs = <<>> THEN ParseOK(acc)
    ELSE appendItem(elem, itemStrs, acc, parseScalar(elem, Head(itemStrs)))

\* lines 199-218: the parser of a slice type; ropt.sep is not used
sliceResult(typ, r) == IF r.ok THEN ParseOK(SliceV(typ, r.v)) ELSE r
parseSlice(typ, sep, s) ==
    IF s = "" THEN ParseOK(ZeroOf(typ))
    ELSE sliceResult(typ, parseItems(Elem(typ), Fields(s), <<>>))

\* a ParserFunc applied to a string: [ok, v, err]
Parse(parser, s) ==
    IF IsSlice(parser.typ) THEN parseSlice(parser.typ, parser.sep, s)
    ELSE parseScalar(parser.typ, s)

\* the StringerFunc of a type that is no slice
stringifyScalar(typ, v) ==
    CASE typ = "bool" -> IF v.i = 1 THEN "true" ELSE "false"
      [] typ \in SignedKinds -> FormatInt(v.i, v.m)
      [] typ \in UnsignedKinds -> FormatUint(v.m)
      [] OTHER -> v.s

\* lines 289-301: the items joined with ' '
RECURSIVE joinItems(_, _, _)
joinItems(elem, items, i) ==
    IF i > Len(items) THEN ""
    ELSE (IF i > 1 THEN " " ELSE "") \o stringifyScalar(elem, items[i])
            \o joinItems(elem, items, i + 1)

\* a StringerFunc applied to a value
Stringify(stringer, v) ==
    IF IsSlice(stringer.typ) THEN joinItems(Elem(stringer.typ), v.m, 1)
    ELSE stringifyScalar(stringer.typ, v)

----------------------------------------------------------------------------
(* Schema compiler (reflection.go) *)

NilFM ==
    [fieldIdx |-> <<>>, name |-> "", Parse |-> NoCodec, Stringify |-> NoCodec,
     Source |-> noSrc, Optional |-> FALSE, NotInBody |-> FALSE, IsJSONOnly |-> FALSE]

EmptySM ==
    [NamedFields |-> EmptyMap, UnnamedFields |-> <<>>,
     HasRawBody |-> FALSE, HasFullBody |-> FALSE, HasBodyForm |-> FALSE]

\* one modifier of a form tag that sets the source: a second source is a conflict
setSource(st, src) ==
    IF st.src # noSrc THEN [st EXCEPT !.panic = "conflicting modifier"]
    ELSE [st EXCEPT !.src = src]

\* the loop over comps[1:] of the form tag
RECURSIVE applyModifiers(_, _, _)
applyModifiers(mods, i, st) ==
    IF i > Len(mods) \/ st.panic # "" THEN st
    ELSE LET mod == mods[i] IN
         applyModifiers(mods, i + 1,
            CASE mod = "path" -> setSource(st, pathSrc)
              [] mod = "cookie" -> setSource(st, cookieSrc)
              [] mod = "header" -> setSource(st, headerSrc)
              [] mod = "method" -> setSource(st, methodSrc)
              [] mod = "issave" -> setSource(st, isSaveSrc)
              [] mod = "rawbody" -> setSource(st, rawBodySrc)
              [] mod = "fullbody" -> setSource(st, fullBodySrc)
              [] mod = "notinbody" -> [st EXCEPT !.isNotInBody = TRUE]
              [] mod = "jsononly" -> [st EXCEPT !.isJSONOnly = TRUE]
              [] mod = "optional" -> [st EXCEPT !.isOptional = TRUE]
              [] mod = "sep=comma" -> [st EXCEPT !.sep = ","]
              [] mod = "sep=semicolon" -> [st EXCEPT !.sep = ";"]
              [] mod = "sep=colon" -> [st EXCEPT !.sep = ":"]
              [] OTHER -> [st EXCEPT !.panic = "unknown modifier"])

\* the source a field's type implies
typeSource(fieldTyp) ==
    CASE fieldTyp = "request" -> requestSrc
      [] fieldTyp = "url" -> urlSrc
      [] fieldTyp = "urlValues" -> queryValuesSrc
      [] fieldTyp = "headers" -> headersSrc
      [] OTHER -> noSrc

FieldSkip == [out |-> "skip", msg |-> "", fm |-> NilFM]
FieldPanic(msg) == [out |-> "panic", msg |-> msg, fm |-> NilFM]
FieldEmit(fm) == [out |-> "emit", msg |-> "", fm |-> fm]
FieldEmbed == [out |-> "embed", msg |-> "", fm |-> NilFM]

\* the tail of examineField, once the modifiers are read: the validation rules
\* and the binding
bindField(cf, fieldIdx, field, st, jsonNamed, jsonName, jsonSkipped, formName) ==
    LET src == IF st.src = noSrc THEN formSrc ELSE st.src
        jsonPresent == field.json # NoTag
        formPresent == field.form # NoTag
        useJSONName == src = formSrc /\ cf.AllowJSON
        name == IF useJSONName THEN jsonName ELSE formName
        fm == [fieldIdx |-> fieldIdx, name |-> name,
               Parse |-> pickParser(field.typ, st.sep),
               Stringify |-> pickStringer(field.typ, st.sep),
               Source |-> src, Optional |-> st.isOptional,
               NotInBody |-> st.isNotInBody, IsJSONOnly |-> st.isJSONOnly]
    IN  IF field.anonymous /\ ~formPresent /\ ~jsonPresent THEN FieldEmbed
        ELSE IF IsNamed(src) /\ ~formPresent /\ ~jsonPresent
            THEN FieldPanic("must have form or json tag; use json:\"-\" to skip")
        ELSE IF cf.AllowJSON /\ src # formSrc /\ ~jsonSkipped
            THEN FieldPanic("must have json:\"-\" tag")
        ELSE IF ~IsNamed(src)
            THEN IF formName # ""
                 THEN FieldPanic("cannot have a name in form tag")
                 ELSE FieldEmit([NilFM EXCEPT !.fieldIdx = fieldIdx, !.Source = src])
        ELSE IF useJSONName /\ ~jsonNamed
            THEN FieldPanic("must have json:\"somename\" tag")
        ELSE IF useJSONName /\ formName # "" /\ formName # name
            THEN FieldPanic("unnecessary name in form tag")
        ELSE IF ~useJSONName /\ formName = ""
            THEN FieldPanic("must have form:\"somename\" tag")
        ELSE IF fm.Parse = NoCodec /\ ~st.isJSONOnly
            THEN FieldPanic("don't know how to parse")
        ELSE IF fm.Stringify = NoCodec /\ ~st.isJSONOnly
            THEN FieldPanic("don't know how to convert to a string")
        ELSE FieldEmit(fm)

\* examineField, except that the recursion into an embedded struct is left to
\* examineStructFields (out = "embed")
examineField(cf, fieldIdx, field) ==
    IF ~field.exported THEN FieldSkip
    ELSE
    LET jsonPresent == field.json # NoTag
        jsonNamed == jsonPresent /\ field.json[1] # ""
        jsonName == IF jsonNamed THEN field.json[1] ELSE field.name
        jsonSkipped == jsonNamed /\ field.json[1] = "-"
        formPresent == field.form # NoTag
        formName == IF formPresent THEN field.form[1] ELSE ""
        st0 == [src |-> typeSource(field.typ), isOptional |-> FALSE,
                isNotInBody |-> FALSE, isJSONOnly |-> FALSE, sep |-> " ", panic |-> ""]
        st == IF formPresent THEN applyModifiers(Tail(field.form), 1, st0) ELSE st0
    IN  IF formPresent /\ formName = "-" THEN FieldSkip
        ELSE IF st.panic # "" THEN FieldPanic(st.panic)
        ELSE bindField(cf, fieldIdx, field, st, jsonNamed, jsonName, jsonSkipped, formName)

\* the emit callback of examineStruct
emit(sm, fm) ==
    LET sm1 == IF IsNamed(fm.Source)
               THEN [sm EXCEPT !.NamedFields =
                        [n \in DOMAIN sm.NamedFields \cup {fm.name} |->
                            IF n = fm.name THEN fm ELSE sm.NamedFields[n]]]
               ELSE [sm EXCEPT !.UnnamedFields = Append(sm.UnnamedFields, fm)]
    IN  IF fm.Source = rawBodySrc THEN [sm1 EXCEPT !.HasRawBody = TRUE]
        ELSE IF fm.Source = fullBodySrc THEN [sm1 EXCEPT !.HasFullBody = TRUE]
        ELSE IF fm.Source = formSrc /\ ~fm.NotInBody THEN [sm1 EXCEPT !.HasBodyForm = TRUE]
        ELSE sm1

\* examineStructFields from field i on; acc carries the schema built so far and
\* the panic, if one was raised
RECURSIVE examineStructFields(_, _, _, _, _)
examineStructFields(cf, structTyp, prefixIdx, i, acc) ==
    IF acc.panic # "" \/ i > Len(StructFields(structTyp)) THEN acc
    ELSE LET field == StructFields(structTyp)[i]
             fieldIdx == Append(prefixIdx, i)
             r == examineField(cf, fieldIdx, field)
             acc1 == CASE r.out = "panic" -> [acc EXCEPT !.panic = r.msg]
                       [] r.out = "emit" -> [acc EXCEPT !.sm = emit(acc.sm, r.fm)]
                       [] r.out = "embed" ->
                            examineStructFields(cf, field.typ, fieldIdx, 1, acc)
                       [] OTHER -> acc
         IN  examineStructFields(cf, structTyp, prefixIdx, i + 1, acc1)

\* examineStruct: [panic |-> message or "", sm |-> the structMeta]
examineStruct(cf, structTyp) ==
    examineStructFields(cf, structTyp, <<>>, 1, [panic |-> "", sm |-> EmptySM])

----------------------------------------------------------------------------
(* The destination record and encoding/json's view of it *)

\* the struct field a field index path names
RECURSIVE FieldAt(_, _)
FieldAt(T, path) ==
    IF Len(path) = 1 THEN StructFields(T)[path[1]]
    ELSE FieldAt(StructFields(T)[path[1]].typ, Tail(path))

\* the index paths of the fields of T that hold values, embedded structs opened
RECURSIVE LeafPaths(_, _, _)
LeafPaths(T, prefixIdx, i) ==
    IF i > Len(StructFields(T)) THEN {}
    ELSE LET f == StructFields(T)[i] IN
         (IF IsStruct(f.typ) THEN LeafPaths(f.typ, Append(prefixIdx, i), 1)
          ELSE {Append(prefixIdx, i)})
         \cup LeafPaths(T, prefixIdx, i + 1)

\* a zero record of type T
ZeroRecord(T) == [p \in LeafPaths(T, <<>>, 1) |-> ZeroOf(FieldAt(T, p).typ)]

\* encoding/json's fields of a struct type: an exported field under its tag
\* name or, without one, its Go name; a field tagged exactly "-" is left out;
\* an embedded struct without a tag name is opened
RECURSIVE jsonTypeFields(_, _, _)
jsonTypeFields(T, prefixIdx, i) ==
    IF i > Len(StructFields(T)) THEN <<>>
    ELSE LET f == StructFields(T)[i]
             tagName == IF f.json # NoTag THEN f.json[1] ELSE ""
             here == IF ~f.exported \/ f.json = <<"-">> THEN <<>>
                     ELSE IF f.anonymous /\ tagName = ""
                        THEN jsonTypeFields(f.typ, Append(prefixIdx, i), 1)
                     ELSE << [name |-> IF tagName # "" THEN tagName ELSE f.name,
                              path |-> Append(prefixIdx, i), typ |-> f.typ] >>
         IN  here \o jsonTypeFields(T, prefixIdx, i + 1)

\* the field a member key selects: an exact match, else a case-insensitive one;
\* 0 when the key is unknown
jsonFieldFor(fields, key) ==
    IF \E i \in DOMAIN fields : fields[i].name = key
    THEN CHOOSE i \in DOMAIN fields :
            fields[i].name = key /\ \A j \in 1..(i - 1) : fields[j].name # key
    ELSE IF \E i \in DOMAIN fields : EqualFold(fields[i].name, key)
    THEN CHOOSE i \in DOMAIN fields :
            EqualFold(fields[i].name, key)
            /\ \A j \in 1..(i - 1) : ~EqualFold(fields[j].name, key)
    ELSE 0

\* whether a JSON value can be stored in a field of the type
jsonFits(v, typ) ==
    \/ typ = "any"
    \/ typ = "string" /\ v.k = "string"
    \/ typ = "int" /\ v.k = "int"

\* json.Decoder.Decode of an object into a struct: every member whose key
\* selects a field is stored; the first unknown key (when disallowed) or
\* mistyped member is the error returned once the object is read
RECURSIVE jsonDecodeStruct(_, _, _, _)
jsonDecodeStruct(st, fields, members, disallowUnknown) ==
    IF members = <<>> THEN st
    ELSE LET key == Head(members)[1]
             v == Head(members)[2]
             i == jsonFieldFor(fields, key)
             st1 ==
                IF i = 0
                THEN IF disallowUnknown /\ st.err = ""
                     THEN [st EXCEPT !.err = "json: unknown field " \o Quote(key)]
                     ELSE st
                ELSE IF jsonFits(v, fields[i].typ)
                THEN [st EXCEPT !.dest[fields[i].path] = v,
                                !.set = @ \cup {fields[i].path}]
                ELSE IF st.err = ""
                THEN [st EXCEPT !.err = "json: cannot unmarshal " \o v.k
                                        \o " into Go struct field " \o fields[i].name]
                ELSE st
         IN  jsonDecodeStruct(st1, fields, Tail(members), disallowUnknown)

\* json.Decoder.Decode into an empty interface: the generic value of a document
jsonGeneric(members) == ObjV(members)

----------------------------------------------------------------------------
(* Request errors (error.go) *)

NoError == [code |-> 0, message |-> "", cause |-> ""]
Error(code, message, cause) == [code |-> code, message |-> message, cause |-> cause]

\* the rendering with the status code in square brackets
ErrorText_bracketed(e) ==
    LET b1 == IF e.code # 0 THEN "[" \o ToString(e.code) \o "]" ELSE ""
        b2 == IF e.message # ""
              THEN (IF b1 # "" THEN b1 \o " " ELSE b1) \o e.message
              ELSE b1
    IN  IF e.cause # ""
        THEN (IF b2 # "" THEN b2 \o " " ELSE b2) \o e.cause
        ELSE b2

\* Error.Error
ErrorText(e) ==
    LET b1 == IF e.code # 0 THEN "HTTP " \o ToString(e.code) ELSE ""
        b2 == IF e.message # ""
              THEN (IF b1 # "" THEN b1 \o " " ELSE b1) \o e.message
              ELSE b1
    IN  IF e.cause # ""
        THEN (IF b2 # "" THEN b2 \o ": " ELSE b2) \o e.cause
        ELSE b2

----------------------------------------------------------------------------
(* Assignment of destination fields (reflection.go) *)

Failed(c) == c.err.code # 0 \/ c.panic # ""
fail(c, e) == [c EXCEPT !.err = e]
panicWith(c, msg) == [c EXCEPT !.panic = msg]

\* reflect.Value.CanConvert for the value kinds of the model
CanConvert(val, fieldTyp) ==
    \/ fieldTyp = "any"
    \/ val.k = fieldTyp
    \/ val.k \in {"string", "bytes"} /\ fieldTyp \in {"string", "bytes"}

\* setFieldVal; phase names the step of DecodeVal that makes the assignment
setFieldVal(c, fm, val, phase) ==
    LET fieldTyp == FieldAt(c.typ, fm.fieldIdx).typ
        v == IF val.k = "nil" THEN ZeroOf(fieldTyp) ELSE val
    IN  IF ~CanConvert(v, fieldTyp) THEN panicWith(c, "cannot convert")
        ELSE [c EXCEPT !.dest[fm.fieldIdx] = IF fieldTyp = "any" THEN v
                                             ELSE [v EXCEPT !.k = fieldTyp],
                       !.assigned = @ \cup {<<fm.fieldIdx, phase>>}]

\* setField: [c |-> the call after it, err |-> the error returned, "" for nil].
\* A binding without a parser (jsononly) makes the call of fm.Parse a nil
\* dereference.
setParsed(c, fm, r, phase) ==
    IF ~r.ok THEN [c |-> c, err |-> "invalid " \o fm.name \o ": " \o r.err]
    ELSE [c |-> setFieldVal(c, fm, r.v, phase), err |-> ""]
setField(c, fm, rawValue, phase) ==
    IF fm.Parse = NoCodec THEN [c |-> panicWith(c, "nil ParserFunc"), err |-> ""]
    ELSE setParsed(c, fm, Parse(fm.Parse, rawValue), phase)

\* setVal that looks the binding up by name alone
setVal_anySource(c, sm, src, name, rawValue, phase) ==
    IF name \notin DOMAIN sm.NamedFields
    THEN IF src # formSrc
         THEN [c |-> panicWith(c, "no input field for param"), err |-> ""]
         ELSE [c |-> c, err |-> ""]
    ELSE setField(c, sm.NamedFields[name], rawValue, phase)

\* setVal
setVal(c, sm, src, name, rawValue, phase) ==
    IF name \notin DOMAIN sm.NamedFields \/ sm.NamedFields[name].Source # src
    THEN IF src # formSrc
         THEN [c |-> panicWith(c, "no input field for param"), err |-> ""]
         ELSE [c |-> c, err |-> ""]
    ELSE setField(c, sm.NamedFields[name], rawValue, phase)

----------------------------------------------------------------------------
(* Schema cache (reflection.go, lookupStruct) *)

\* a Load that never finds an entry
CacheLoad_miss(cache, structTyp) == 0

\* sync.Map.Load: the address stored for the type, 0 when there is none
CacheLoad(cache, structTyp) == cache[structTyp]

\* a plain Store in the place of LoadOrStore
LoadOrStore_store(cache, structTyp, addr) == [cache EXCEPT ![structTyp] = addr]

\* sync.Map.LoadOrStore: the entry is written only when there is none
LoadOrStore(cache, structTyp, addr) ==
    IF cache[structTyp] # 0 THEN cache
    ELSE [cache EXCEPT ![structTyp] = addr]

----------------------------------------------------------------------------
(* Configurations (part_000) *)

Default ==
    [AllowJSON |-> TRUE, AllowForm |-> TRUE, AllowMultipart |-> TRUE,
     JSONBodyFallbackParam |-> "_body",
     DisallowUnknownFields |-> FALSE, AllowUnknownFieldsHeader |-> ""]

\* Configuration.Strict (the clone's cache is a new, empty one)
Strict(cf) == [cf EXCEPT !.DisallowUnknownFields = TRUE, !.AllowUnknownFieldsHeader = ""]

\* determineMIMEType (util.go)
determineMIMEType(c) ==
    LET s == c.contentType IN
    IF s = "" THEN "" ELSE ParseMediaType(s)

----------------------------------------------------------------------------
(* DecodeVal (part_000), step by step *)

isBodiless(c) == c.method \in {"GET", "HEAD"}

\* the body buffered for a rawbody field only
needsRawBody_rawOnly(sm) == sm.HasRawBody

\* the condition under which DecodeVal reads the whole body into rawBody first
needsRawBody(sm) == sm.HasRawBody \/ (sm.HasBodyForm /\ sm.HasFullBody)

\* what a read of r.Body to its end delivers
bodyStream(c) == IF c.bodyRead THEN "" ELSE c.bodyBytes

\* the raw body read, and r.Body left at its end
captureBody_consumed(c, sm) ==
    LET c1 == IF needsRawBody(sm)
              THEN [c EXCEPT !.rawBody = bodyStream(c), !.bodyRead = TRUE]
              ELSE c
    IN  [c1 EXCEPT !.mtype = IF isBodiless(c) THEN "" ELSE determineMIMEType(c)]

\* the media type taken from the header whatever the method
captureBody_anyMethod(c, sm) ==
    LET c1 == IF needsRawBody(sm)
              THEN [c EXCEPT !.rawBody = bodyStream(c), !.bodyBytes = bodyStream(c),
                             !.bodyRead = FALSE, !.buffered = TRUE]
              ELSE c
    IN  [c1 EXCEPT !.mtype = determineMIMEType(c)]

\* lines 84-101: the raw body is captured and r.Body replaced by a reader over
\* it; the media type is determined
captureBody(c, sm) ==
    LET c1 == IF needsRawBody(sm)
              THEN [c EXCEPT !.rawBody = bodyStream(c), !.bodyBytes = bodyStream(c),
                             !.bodyRead = FALSE, !.buffered = TRUE]
              ELSE c
    IN  [c1 EXCEPT !.mtype = IF isBodiless(c) THEN "" ELSE determineMIMEType(c)]

\* whether the JSON decoder rejects unknown fields for this request
disallowUnknown(cf, c) ==
    /\ cf.DisallowUnknownFields
    /\ \/ cf.AllowUnknownFieldsHeader = ""
       \/ ~parseBoolDefault(Get(c.header, cf.AllowUnknownFieldsHeader), FALSE)

\* lines 107-112: the decoder's error becomes the request error; otherwise the
\* record holds what the decoder stored.  d is the outcome of jsonDecodeStruct.
storeDecoded(c, d, which) ==
    LET cd == [c EXCEPT !.dest = d.dest, !.decoded = @ \cup {which},
                        !.assigned = @ \cup {<<p, which>> : p \in d.set}]
    IN  IF d.err # "" THEN fail(cd, Error(StatusBadRequest, "JSON input", d.err))
        ELSE cd

\* the record decoded whether or not the schema has a body-sourced form field
decodeRecord_unguarded(c, cf, sm, r, which) ==
    IF ~r.ok
    THEN fail([c EXCEPT !.decoded = @ \cup {which}],
              Error(StatusBadRequest, "JSON input", r.err))
    ELSE storeDecoded(c, jsonDecodeStruct([dest |-> c.dest, set |-> {}, err |-> ""],
                                          jsonTypeFields(c.typ, <<>>, 1), r.members,
                                          disallowUnknown(cf, c)),
                      which)

\* lines 104-113: json.NewDecoder(body()).Decode(destValPtr.Interface()) when the
\* schema has a body-sourced field; r is what the decoder reads
decodeRecord(c, cf, sm, r, which) ==
    IF ~sm.HasBodyForm THEN c
    ELSE IF ~r.ok
    THEN fail([c EXCEPT !.decoded = @ \cup {which}],
              Error(StatusBadRequest, "JSON input", r.err))
    ELSE storeDecoded(c, jsonDecodeStruct([dest |-> c.dest, set |-> {}, err |-> ""],
                                          jsonTypeFields(c.typ, <<>>, 1), r.members,
                                          disallowUnknown(cf, c)),
                      which)

\* lines 115-123: json.NewDecoder(body()).Decode(&fullBody) when the schema has
\* a fullbody field; r is what this second decoder reads
decodeFullBody(c, sm, r, which) ==
    IF Failed(c) \/ ~sm.HasFullBody THEN c
    ELSE IF ~r.ok
    THEN fail([c EXCEPT !.decoded = @ \cup {which}],
              Error(StatusBadRequest, "JSON input", r.err))
    ELSE [c EXCEPT !.fullBody = jsonGeneric(r.members), !.decoded = @ \cup {which}]

\* line 124
markBodyParsed(c) == IF Failed(c) THEN c ELSE [c EXCEPT !.isBodyParsed = TRUE]

\* the closure parseJSONBody, applied to the text doc.  shared: body() hands
\* out r.Body itself, so that a second decoder reads what the first one left;
\* otherwise every decoder gets a reader of its own over doc.
parseJSONBody(c, cf, sm, doc, shared, which) ==
    markBodyParsed(
        decodeFullBody(decodeRecord(c, cf, sm, JSONRead(doc), which), sm,
                       JSONRead(IF shared /\ sm.HasBodyForm THEN "" ELSE doc), which))

\* url.ParseQuery of the request's query string: the pairs it accepts and
\* whether it reports an error
queryPairs(c) == SelectSeq(c.query, LAMBDA p : p # BadPair)
queryError(c) ==
    IF \E i \in DOMAIN c.query : c.query[i] = BadPair
    THEN "invalid URL escape " \o Quote("%zz") ELSE ""

\* http.Request.ParseForm with r.PostForm preset to an empty map: r.Form is the
\* query string alone
parseQueryOnly(c, message) ==
    IF queryError(c) # ""
    THEN fail(c, Error(StatusBadRequest, message, queryError(c)))
    ELSE [c EXCEPT !.form = queryPairs(c)]

\* http.Request.ParseForm: the body of a POST, PUT or PATCH request is read and
\* parsed when its media type is the URL-encoded one; r.Form is the body's
\* pairs followed by the query's
parseForm(c) ==
    LET readsBody == /\ c.method \in {"POST", "PUT", "PATCH"}
                     /\ ParseMediaType(c.contentType) = formContentType
        post == IF readsBody THEN ParseQueryText(bodyStream(c)) ELSE <<>>
        c1 == [c EXCEPT !.bodyRead = @ \/ readsBody, !.form = post \o queryPairs(c)]
    IN  IF queryError(c) # "" THEN fail(c1, Error(StatusBadRequest, "", queryError(c)))
        ELSE c1

\* http.Request.ParseMultipartForm: ParseForm, then the multipart body, whose
\* values are appended to r.Form
parseMultipartForm(c) ==
    LET mp == ReadMultipartForm(bodyStream(c))
        c1 == [c EXCEPT !.bodyRead = TRUE, !.form = queryPairs(c) \o mp.pairs]
    IN  IF ~mp.ok THEN fail(c1, Error(StatusBadRequest, "", mp.err))
        ELSE IF queryError(c) # "" THEN fail(c1, Error(StatusBadRequest, "", queryError(c)))
        ELSE c1

\* lines 141-144: after the JSON body, the query string is parsed into r.Form
afterJSONBody(c) == IF Failed(c) THEN c ELSE parseQueryOnly(c, "query string")

\* what the decoders of parseJSONBody leave of a body they share
drainBody(c, sm, shared) ==
    [c EXCEPT !.bodyRead = @ \/ (shared /\ (sm.HasBodyForm \/ sm.HasFullBody))]

\* the switch with a default case that parses the query string
dispatch_defaultQuery(c, cf, sm) ==
    CASE c.mtype = jsonContentType ->
            IF ~cf.AllowJSON
            THEN fail(c, Error(StatusUnsupportedMediaType, "JSON input not allowed", ""))
            ELSE afterJSONBody(
                    drainBody(parseJSONBody(c, cf, sm, bodyStream(c), ~c.buffered, "json"),
                              sm, ~c.buffered))
      [] c.mtype = formContentType -> parseForm(c)
      [] c.mtype = multipartFormContentType -> parseMultipartForm(c)
      [] OTHER -> parseQueryOnly(c, "query string")

\* lines 128-155: the switch on the media type
dispatch(c, cf, sm) ==
    CASE c.mtype = jsonContentType ->
            IF ~cf.AllowJSON
            THEN fail(c, Error(StatusUnsupportedMediaType, "JSON input not allowed", ""))
            ELSE afterJSONBody(
                    drainBody(parseJSONBody(c, cf, sm, bodyStream(c), ~c.buffered, "json"),
                              sm, ~c.buffered))
      [] c.mtype = "" -> parseQueryOnly(c, "query string")
      [] c.mtype = formContentType -> parseForm(c)
      [] c.mtype = multipartFormContentType -> parseMultipartForm(c)
      [] OTHER -> c

\* the sequences that list every element of S once: the orders in which a Go
\* range statement may visit the keys of a map
Orders(S) ==
    {o \in [1..Cardinality(S) -> S] : \A i, j \in DOMAIN o : i # j => o[i] # o[j]}

\* lines 158-163: the values of one key of r.Form, in order
RECURSIVE setValues(_, _, _, _)
nextValue(r, sm, k, vv) ==
    IF r.err # "" THEN fail(r.c, Error(StatusBadRequest, "", r.err))
    ELSE setValues(r.c, sm, k, Tail(vv))
setValues(c, sm, k, vv) ==
    IF vv = <<>> \/ Failed(c) THEN c
    ELSE nextValue(setVal(c, sm, formSrc, k, Head(vv), "form"), sm, k, vv)

\* lines 157-164: the keys of r.Form in the order the range visits them
RECURSIVE rangeForm(_, _, _, _)
rangeForm(c, sm, order, i) ==
    IF i > Len(order) \/ Failed(c) THEN c
    ELSE rangeForm(setValues(c, sm, order[i], ValuesOf(c.form, order[i])), sm, order, i + 1)

\* the fallback taken without regard to the value being empty
fallbackBody_emptyDoc(c, cf, sm) ==
    IF ~c.isBodyParsed /\ cf.JSONBodyFallbackParam # ""
    THEN parseJSONBody(c, cf, sm, Get(c.form, cf.JSONBodyFallbackParam), FALSE, "fallback")
    ELSE c

\* the fallback taken without regard to isBodyParsed
fallbackBody_always(c, cf, sm) ==
    IF cf.JSONBodyFallbackParam # "" /\ Get(c.form, cf.JSONBodyFallbackParam) # ""
    THEN parseJSONBody(c, cf, sm, Get(c.form, cf.JSONBodyFallbackParam), FALSE, "fallback")
    ELSE c

\* lines 165-174: the fallback JSON document
fallbackBody(c, cf, sm) ==
    IF ~c.isBodyParsed /\ cf.JSONBodyFallbackParam # ""
    THEN LET bodyStr == Get(c.form, cf.JSONBodyFallbackParam) IN
         IF bodyStr # "" THEN parseJSONBody(c, cf, sm, bodyStr, FALSE, "fallback")
         ELSE c
    ELSE c

\* interpretPathParams (part_003): the lookup of a name, "" when the source has
\* no parameters or none of that name
pathParam(c, name) == IF c.pathParams.kind = "nil" THEN "" ELSE Get(c.pathParams.params, name)

\* the map DecodeVal builds of r.Cookies(): of two cookies of one name the
\* later one is kept; <<found, value>>
RECURSIVE cookieOf(_, _)
cookieOf(cookies, name) ==
    IF cookies = <<>> THEN <<FALSE, "">>
    ELSE LET last == cookies[Len(cookies)] IN
         IF last[1] = name THEN <<TRUE, last[2]>>
         ELSE cookieOf(SubSeq(cookies, 1, Len(cookies) - 1), name)

\* one named field, a parse failure of a path parameter taken for fatal
namedField_pathFatal(c, fm) ==
    IF fm.Source = pathSrc /\ pathParam(c, fm.name) # ""
        /\ ~Parse(fm.Parse, pathParam(c, fm.name)).ok
    THEN panicWith(c, "invalid path parameter")
    ELSE CASE fm.Source = pathSrc ->
                IF pathParam(c, fm.name) = ""
                THEN IF fm.Optional THEN c ELSE panicWith(c, "missing path parameter")
                ELSE setField(c, fm, pathParam(c, fm.name), "path").c
           [] OTHER -> c

\* lines 179-221: one named field
namedField(c, fm) ==
    LET wrap(r) == IF r.err # "" THEN fail(r.c, Error(StatusBadRequest, "", r.err)) ELSE r.c
    IN
    CASE fm.Source = pathSrc ->
            LET v == pathParam(c, fm.name) IN
            IF v = ""
            THEN IF fm.Optional THEN c ELSE panicWith(c, "missing path parameter")
            ELSE wrap(setField(c, fm, v, "path"))
      [] fm.Source = headerSrc ->
            LET v == Get(c.header, fm.name) IN
            IF v = ""
            THEN IF fm.Optional THEN c
                 ELSE fail(c, Error(StatusBadRequest, "missing header " \o fm.name, ""))
            ELSE wrap(setField(c, fm, v, "header"))
      [] fm.Source = cookieSrc ->
            LET ck == cookieOf(c.cookies, fm.name) IN
            IF ck[1] THEN wrap(setField(c, fm, ck[2], "cookie")) ELSE c
      [] OTHER -> c

\* lines 178-222: the named fields in the order the range visits them
RECURSIVE rangeNamed(_, _, _, _)
rangeNamed(c, sm, order, i) ==
    IF i > Len(order) \/ Failed(c) THEN c
    ELSE rangeNamed(namedField(c, sm.NamedFields[order[i]]), sm, order, i + 1)

\* lines 225-254: one unnamed field
unnamedField(c, fm) ==
    LET fieldTyp == FieldAt(c.typ, fm.fieldIdx).typ IN
    CASE fm.Source = requestSrc -> setFieldVal(c, fm, RefV("request", <<>>), "unnamed")
      [] fm.Source = urlSrc -> setFieldVal(c, fm, RefV("url", c.query), "unnamed")
      [] fm.Source = queryValuesSrc ->
            setFieldVal(c, fm, RefV("urlValues", queryPairs(c)), "unnamed")
      [] fm.Source = headersSrc -> setFieldVal(c, fm, RefV("headers", c.header), "unnamed")
      [] fm.Source = methodSrc -> setFieldVal(c, fm, StrV(c.method), "unnamed")
      [] fm.Source = isSaveSrc ->
            setFieldVal(c, fm, BoolV(c.method \in {"POST", "PUT", "PATCH"}), "unnamed")
      [] fm.Source = rawBodySrc ->
            IF fieldTyp = "bytes"
            THEN [c EXCEPT !.dest[fm.fieldIdx] = BytesV(c.rawBody),
                           !.assigned = @ \cup {<<fm.fieldIdx, "unnamed">>}]
            ELSE IF fieldTyp = "string"
            THEN [c EXCEPT !.dest[fm.fieldIdx] = StrV(c.rawBody),
                           !.assigned = @ \cup {<<fm.fieldIdx, "unnamed">>}]
            ELSE panicWith(c, "invalid type of rawbody param")
      [] fm.Source = fullBodySrc -> setFieldVal(c, fm, c.fullBody, "unnamed")
      [] OTHER -> c

\* lines 224-255: the unnamed fields in their order
RECURSIVE rangeUnnamed(_, _, _)
rangeUnnamed(c, sm, i) ==
    IF i > Len(sm.UnnamedFields) \/ Failed(c) THEN c
    ELSE rangeUnnamed(unnamedField(c, sm.UnnamedFields[i]), sm, i + 1)

----------------------------------------------------------------------------
(* EncodeToValues (part_000) *)

\* getString: the field's value through its stringifier; a binding without
\* one (jsononly) makes the call a nil dereference
getString(c, fm) == Stringify(fm.Stringify, c.dest[fm.fieldIdx])

\* lines 275-280: values.Set for every named form field
encodeToValues(c, sm) ==
    LET names == {n \in DOMAIN sm.NamedFields : sm.NamedFields[n].Source = formSrc} IN
    IF \E n \in names : sm.NamedFields[n].Stringify = NoCodec
    THEN panicWith(c, "nil StringerFunc")
    ELSE [c EXCEPT !.form = [n \in names |-> getString(c, sm.NamedFields[n])]]

\* strings.ReplaceAll(s, old, new) for a non-empty old: the occurrences of old
\* from the left, none overlapping another
RECURSIVE replaceFrom(_, _, _, _)
replaceFrom(s, old, new, i) ==
    IF i > Len(s) THEN ""
    ELSE IF i + Len(old) - 1 <= Len(s) /\ SubSeq(s, i, i + Len(old) - 1) = old
    THEN new \o replaceFrom(s, old, new, i + Len(old))
    ELSE CharAt(s, i) \o replaceFrom(s, old, new, i + 1)
ReplaceAll(s, old, new) == replaceFrom(s, old, new, 1)

\* lines 303-308: one path field; the panic when the replacement changed nothing
replaceKey(c, key, newPath) ==
    IF newPath = c.path THEN panicWith(c, key \o " is not found in " \o c.origPath)
    ELSE [c EXCEPT !.path = newPath]
encodePathField(c, fm) ==
    replaceKey(c, ":" \o fm.name, ReplaceAll(c.path, ":" \o fm.name, getString(c, fm)))

\* lines 298-309: the path fields in the order the range visits them
RECURSIVE rangePath(_, _, _, _)
rangePath(c, sm, order, i) ==
    IF i > Len(order) \/ Failed(c) THEN c
    ELSE rangePath(encodePathField(c, sm.NamedFields[order[i]]), sm, order, i + 1)

----------------------------------------------------------------------------
(* The calls *)

Procs == 1..NumProcs

NoPathParams == [kind |-> "nil", params |-> <<>>]

\* a call of op on a record of type T, with the request and the record chosen
NewCall(op, T, method, contentType, body, query, header, cookies, pathParams, record) ==
    [op |-> op, typ |-> T,
     method |-> method, contentType |-> contentType,
     sent |-> body, bodyBytes |-> body, bodyRead |-> FALSE,
     query |-> query, header |-> header, cookies |-> cookies,
     pathParams |-> pathParams,
     dest |-> record,
     sm |-> 0, rawBody |-> "", buffered |-> FALSE, fullBody |-> NilV,
     mtype |-> "", isBodyParsed |-> FALSE, form |-> <<>>,
     err |-> NoError, panic |-> "",
     assigned |-> {}, decoded |-> {}, orig |-> EmptyMap,
     origPath |-> "", path |-> ""]

IdleCall == NewCall("none", "Empty", "GET", "", "", <<>>, <<>>, <<>>, NoPathParams, EmptyMap)

\* where a call goes on after its step: it returns at the first request error
\* and aborts at a panic
after(c, next) ==
    IF c.panic # "" THEN "panic" ELSE IF c.err.code # 0 THEN "done" ELSE next

afterLookup(c) ==
    IF c.op = "Decode" THEN "body"
    ELSE IF c.op = "EncodeToPath" THEN "encodepath" ELSE "encode"

\* lookupStruct, line 89: the cache is asked for the type
Load(g) ==
    /\ pc[g] = "lookup"
    /\ LET addr == CacheLoad(structCache, call[g].typ) IN
       IF addr # 0
       THEN /\ call' = [call EXCEPT ![g].sm = addr]
            /\ pc' = [pc EXCEPT ![g] = afterLookup(call[g])]
       ELSE /\ pc' = [pc EXCEPT ![g] = "examine"]
            /\ UNCHANGED call
    /\ UNCHANGED <<conf, structCache, heap, compiled>>

\* lookupStruct, line 94: the type is compiled into a new structMeta
Examine(g) ==
    /\ pc[g] = "examine"
    /\ LET r == examineStruct(conf, call[g].typ) IN
       /\ compiled' = [compiled EXCEPT ![call[g].typ] = @ + 1]
       /\ IF r.panic # ""
          THEN /\ call' = [call EXCEPT ![g] = panicWith(@, r.panic)]
               /\ pc' = [pc EXCEPT ![g] = "panic"]
               /\ UNCHANGED heap
          ELSE /\ heap' = Append(heap, r.sm)
               /\ call' = [call EXCEPT ![g].sm = Len(heap) + 1]
               /\ pc' = [pc EXCEPT ![g] = "store"]
    /\ UNCHANGED <<conf, structCache>>

\* lookupStruct, lines 95-96: the structMeta is offered to the cache, and the
\* caller goes on with the one it compiled
Store(g) ==
    /\ pc[g] = "store"
    /\ structCache' = LoadOrStore(structCache, call[g].typ, call[g].sm)
    /\ pc' = [pc EXCEPT ![g] = afterLookup(call[g])]
    /\ UNCHANGED <<conf, heap, compiled, call>>

\* one step of DecodeVal at position at, which makes the call c2
step(g, at, c2, next) ==
    /\ pc[g] = at
    /\ call' = [call EXCEPT ![g] = c2]
    /\ pc' = [pc EXCEPT ![g] = after(c2, next)]
    /\ UNCHANGED <<conf, structCache, heap, compiled>>

ReadBody(g) ==
    /\ pc[g] = "body"
    /\ step(g, "body", captureBody(call[g], heap[call[g].sm]), "dispatch")

Dispatch(g) ==
    /\ pc[g] = "dispatch"
    /\ step(g, "dispatch", dispatch(call[g], conf, heap[call[g].sm]), "form")

FormValues(g) ==
    /\ pc[g] = "form"
    /\ \E order \in Orders(Keys(call[g].form)) :
          step(g, "form", rangeForm(call[g], heap[call[g].sm], order, 1), "fallback")

Fallback(g) ==
    /\ pc[g] = "fallback"
    /\ step(g, "fallback", fallbackBody(call[g], conf, heap[call[g].sm]), "named")

Named(g) ==
    /\ pc[g] = "named"
    /\ \E order \in Orders(DOMAIN heap[call[g].sm].NamedFields) :
          step(g, "named", rangeNamed(call[g], heap[call[g].sm], order, 1), "unnamed")

Unnamed(g) ==
    /\ pc[g] = "unnamed"
    /\ step(g, "unnamed", rangeUnnamed(call[g], heap[call[g].sm], 1), "done")

Encode(g) ==
    /\ pc[g] = "encode"
    /\ step(g, "encode", encodeToValues(call[g], heap[call[g].sm]), "done")

\* EncodeToPath, lines 297-311
EncodePath(g) ==
    /\ pc[g] = "encodepath"
    /\ \E order \in Orders({n \in DOMAIN heap[call[g].sm].NamedFields :
                              heap[call[g].sm].NamedFields[n].Source = pathSrc}) :
          step(g, "encodepath", rangePath(call[g], heap[call[g].sm], order, 1), "done")

\* a caller decodes what EncodeToValues wrote: a fresh GET request whose query
\* is the multimap, into a zero record of the same type
Redecode(g) ==
    /\ pc[g] = "done" /\ call[g].op = "EncodeToValues" /\ ~Failed(call[g])
    /\ \E order \in Orders(DOMAIN call[g].form) :
          call' = [call EXCEPT ![g] =
                      [NewCall("Decode", call[g].typ, "GET", "", "",
                               [i \in 1..Len(order) |-> <<order[i], call[g].form[order[i]]>>],
                               <<>>, <<>>, NoPathParams, ZeroRecord(call[g].typ))
                          EXCEPT !.orig = call[g].dest]]
    /\ pc' = [pc EXCEPT ![g] = "lookup"]
    /\ UNCHANGED <<conf, structCache, heap, compiled>>

Next ==
    \E g \in Procs :
        \/ Load(g)
        \/ Examine(g)
        \/ Store(g)
        \/ ReadBody(g)
        \/ Dispatch(g)
        \/ FormValues(g)
        \/ Fallback(g)
        \/ Named(g)
        \/ Unnamed(g)
        \/ Encode(g)

----------------------------------------------------------------------------
(* The requests and records of the model *)

Configurations ==
    {Default,
     [Default EXCEPT !.AllowJSON = FALSE],
     [Default EXCEPT !.AllowForm = FALSE],
     [Default EXCEPT !.AllowMultipart = FALSE],
     [Default EXCEPT !.JSONBodyFallbackParam = ""],
     Strict(Default),
     [Strict(Default) EXCEPT !.AllowUnknownFieldsHeader = "X-Allow-Unknown"]}

Methods == {"GET", "POST"}

ContentTypes ==
    {"", "application/json; charset=utf-8", formContentType,
     "multipart/form-data; boundary=b", "text/plain"}

Bodies == {"", BodyFooBar, BodyFooZzz, BodyInvalid, BodyForm, BodyFormFallback, BodyMultipart}

QueryPairs ==
    {<<"foo", "q">>, <<"n", "42">>, <<"n", "x">>, <<"zzz", "1">>,
     <<"_body", BodyFooQux>>, <<"_body", BodyInvalid>>, <<"_body", "">>, BadPair}

SeqsUpTo(S, n) == UNION {[1..k -> S] : k \in 0..n}

Queries == SeqsUpTo(QueryPairs, MaxQuery)

HeaderSets ==
    {<<>>, << <<"X-Foo", "bar">> >>, << <<"X-Foo", "42">> >>, << <<"X-Allow-Unknown", "1">> >>}

InitShared(cf) ==
    /\ conf = cf
    /\ structCache = [T \in RecordTypes |-> 0]
    /\ heap = <<>>
    /\ compiled = [T \in RecordTypes |-> 0]

Input(cf, T, q, h) == [cf |-> cf, T |-> T, q |-> q, h |-> h]

\* the requests that exercise the merge of body, query string and fallback
MergeInputs ==
    {Input(Default, T, q, <<>>) : T \in {"Empty", "Foo", "FooN", "Outer"}, q \in Queries}

\* the requests that exercise the policy fields of a Configuration
PolicyInputs ==
    {Input(cf, T, q, h) :
        cf \in Configurations, T \in {"Empty", "Foo", "FooN", "FullFoo"},
        q \in {<<>>, << <<"_body", BodyFooQux>> >>, << <<"_body", BodyFooZzz>> >>},
        h \in {<<>>, << <<"X-Allow-Unknown", "1">> >>}}

\* the requests that exercise header fields and fields bound by their type
HeaderInputs ==
    {Input(Default, T, <<>>, h) :
        T \in {"Hdr", "HdrOpt", "HdrInt", "Headers", "Untagged"}, h \in HeaderSets}

\* the requests that exercise rawbody and fullbody fields
BodyInputs ==
    {Input(Default, T, q, <<>>) :
        T \in {"Raw", "RawBytes", "RawFoo", "Full", "FullFoo"},
        q \in SeqsUpTo(QueryPairs, 1)}

DecodeInputs == MergeInputs \cup PolicyInputs \cup HeaderInputs \cup BodyInputs

\* a Decode call on a zero record of the input's type
DecodeCall(in, m, ct, b) ==
    NewCall("Decode", in.T, m, ct, b, in.q, in.h, <<>>, NoPathParams, ZeroRecord(in.T))

\* the path parameters of a route: none given, or a router's parameters
PathParamSets ==
    {NoPathParams} \cup
    {[kind |-> "bun", params |-> pp] :
        pp \in {<<>>, << <<"id", "7">> >>, << <<"id", "x">> >>}}

CookieSets == {<<>>, << <<"sid", "5">> >>, << <<"sid", "zz">> >>}

\* the calls that exercise path, header and cookie fields together, two named
\* fields of one name, and two form fields that can fail together
SourceCalls ==
    {NewCall("Decode", T, m, "", "", <<>>, h, ck, pp, ZeroRecord(T)) :
        T \in {"Path", "PathOpt", "PathInt", "PathHdrCk"}, m \in Methods,
        h \in {<<>>, << <<"X-Foo", "bar">> >>}, ck \in CookieSets, pp \in PathParamSets}
    \cup
    {NewCall("Decode", T, "GET", "", "", q, h, <<>>, NoPathParams, ZeroRecord(T)) :
        T \in {"Dup", "DupSrc"}, q \in {<<>>, << <<"foo", "bar">> >>},
        h \in {<<>>, << <<"foo", "hv">> >>}}
    \cup
    {NewCall("Decode", T, "POST", "application/json; charset=utf-8", b, <<>>, <<>>, <<>>,
             NoPathParams, ZeroRecord(T)) :
        T \in {"HdrDash", "HdrNoSkip", "FormDash", "OnlyDash"}, b \in {BodyFooBar, BodyDash}}
    \cup
    {NewCall("Decode", T, "GET", "", "", << <<"foo", "q">> >>, <<>>, <<>>,
             NoPathParams, ZeroRecord(T)) :
        T \in {"FormDash", "OnlyDash"}}
    \cup
    {NewCall("Decode", T, m, IF m = "POST" THEN "application/json; charset=utf-8" ELSE "",
             IF m = "POST" THEN BodyQ ELSE "", q, <<>>, <<>>, NoPathParams, ZeroRecord(T)) :
        T \in {"NotInBody", "OnlyNotInBody"}, m \in Methods,
        q \in {<<>>, << <<"q", "1">> >>, << <<"_body", BodyQ>> >>}}
    \cup
    {NewCall("Decode", "PathHdrCk", "GET", "", "", q, << <<"X-Foo", "bar">> >>,
             << <<"sid", "5">> >>, [kind |-> "bun", params |-> << <<"id", "7">> >>],
             ZeroRecord("PathHdrCk")) :
        q \in {<< <<"id", "zz">> >>, << <<"X-Foo", "zz">> >>, << <<"sid", "9">> >>,
               << <<"nope", "zz">> >>, << <<"id", "zz">>, <<"sid", "zz">> >>}}
    \cup
    {NewCall("Decode", "JSONOnly", m, IF m = "POST" THEN "application/json; charset=utf-8" ELSE "",
             IF m = "POST" THEN BodyFooBar ELSE "", q, <<>>, <<>>, NoPathParams,
             ZeroRecord("JSONOnly")) :
        m \in Methods, q \in {<<>>, << <<"foo", "q">> >>, << <<"data", "1">> >>}}
    \cup
    {NewCall("Decode", T, m, IF m = "POST" THEN "application/json; charset=utf-8" ELSE "",
             IF m = "POST" THEN BodyDash ELSE "", q, <<>>, <<>>, NoPathParams,
             ZeroRecord(T)) :
        T \in {"JSONDash", "OnlyJSONDash"}, m \in Methods,
        q \in {<<>>, << <<"keep", "q">> >>, << <<"-", "v">> >>}}
    \cup
    {NewCall("Decode", "TwoInts", "GET", "", "", q, <<>>, <<>>, NoPathParams,
             ZeroRecord("TwoInts")) :
        q \in SeqsUpTo({<<"a", "1">>, <<"a", "x">>, <<"b", "2">>, <<"b", "y">>}, MaxQuery)}

\* the records EncodeToValues is called with
EncodeRecords(T) ==
    {ZeroRecord(T),
     [p \in LeafPaths(T, <<>>, 1) |->
        IF FieldAt(T, p).typ = "int" THEN IntV(42) ELSE StrV("bar")]}

EncodeCall(T, record) ==
    NewCall("EncodeToValues", T, "GET", "", "", <<>>, <<>>, <<>>, NoPathParams, record)

\* one goroutine makes one call on a Configuration whose cache is empty
Init ==
    /\ pc = [g \in Procs |-> IF g = 1 THEN "lookup" ELSE "idle"]
    /\ \E first \in
            [cf : {Default},
             c : UNION {{EncodeCall(T, rec) : rec \in EncodeRecords(T)} :
                            T \in {"Foo", "FooN"}}]
            \cup
            {[cf |-> in.cf, c |-> DecodeCall(in, m, ct, b)] :
                in \in DecodeInputs, m \in Methods, ct \in ContentTypes, b \in Bodies}
            \cup [cf : {Default}, c : SourceCalls]
            \cup
            {[cf |-> in.cf, c |-> DecodeCall(in, "HEAD", ct, b)] :
                in \in PolicyInputs, ct \in ContentTypes, b \in Bodies} :
          /\ InitShared(first.cf)
          /\ call = [g \in Procs |-> IF g = 1 THEN first.c ELSE IdleCall]

Spec == Init /\ [][Next]_vars

\* the calls goroutines make at the same time on one Configuration
CacheTypes == {"Foo", "FooN", "HdrOpt"}
CacheCalls ==
    {DecodeCall(Input(Default, T, << <<"foo", "q">> >>, <<>>),
                "POST", "application/json; charset=utf-8", BodyFooBar) : T \in CacheTypes}
    \cup {EncodeCall(T, ZeroRecord(T)) : T \in CacheTypes}

\* every goroutine makes one call; the Configuration's cache is empty
InitCache ==
    /\ InitShared(Default)
    /\ pc = [g \in Procs |-> "lookup"]
    /\ call \in [Procs -> CacheCalls]

SpecCache == InitCache /\ [][Next]_vars

\* the values of a kind a record is encoded with: zero, 42, and the ends of
\* the kind's range
KindValues(kind) ==
    CASE kind = "string" -> {StrV(""), StrV("bar"), StrV("a b"), StrV("-1")}
      [] kind = "bool" -> {BoolV(TRUE), BoolV(FALSE)}
      [] kind \in SignedKinds ->
            {NumV(kind, 0, <<0>>), NumV(kind, 0, <<4, 2>>), NumV(kind, 1, <<4, 2>>),
             NumV(kind, 1, IntCutoff(BitSize(KindBits(kind)))),
             NumV(kind, 0, Minus(IntCutoff(BitSize(KindBits(kind))), <<1>>))}
      [] OTHER ->
            {NumV(kind, 0, <<0>>), NumV(kind, 0, <<4, 2>>),
             NumV(kind, 0, IntCutoff(BitSize(KindBits(kind)))),
             NumV(kind, 0, MaxUint(BitSize(KindBits(kind))))}

ListValues(typ) ==
    IF Elem(typ) = "string"
    THEN {ZeroOf(typ), SliceV(typ, <<StrV("a")>>), SliceV(typ, <<StrV("a"), StrV("b")>>)}
    ELSE {ZeroOf(typ), SliceV(typ, <<IntV(1), IntV(2)>>)}

\* the texts a query value is given as: numerals at and around the ends of
\* every kind's range, signs, leading zeros, and texts that are no numerals
Numerals ==
    {"", "0", "42", "+42", "-42", "007", "-0", "127", "128", "-128", "-129", "255", "256",
     "32767", "32768", "-32768", "-32769", "65535", "65536",
     "2147483647", "2147483648", "-2147483648", "-2147483649", "4294967295", "4294967296",
     "9223372036854775807", "9223372036854775808", "-9223372036854775808",
     "-9223372036854775809", "18446744073709551615", "18446744073709551616",
     "99999999999999999999", "x", "4x", "-", "+", "1 2", "true"}

ListTexts == {"", "a", "a b", "a  b", " a ", "a,b", "a;b", "a:b", "a, b", "1:2", "1 2", "1 x"}

\* the calls on records with one field of a scalar or slice type
RoundCalls ==
    UNION {{EncodeCall(KindType(k), [p \in {<<1>>} |-> v]) : v \in KindValues(k)} :
              k \in ScalarKinds}
    \cup UNION {{EncodeCall(T, [p \in {<<1>>} |-> v]) : v \in ListValues(FieldAt(T, <<1>>).typ)} :
                   T \in {"List", "ListComma", "ListInts"}}
    \cup {NewCall("Decode", KindType(k), "GET", "", "", << <<"foo", s>> >>, <<>>, <<>>,
                  NoPathParams, ZeroRecord(KindType(k))) :
             k \in ScalarKinds, s \in Numerals}
    \cup {NewCall("Decode", T, "GET", "", "", << <<"foo", s>> >>, <<>>, <<>>,
                  NoPathParams, ZeroRecord(T)) :
             T \in {"List", "ListComma", "ListInts"}, s \in ListTexts}

\* one goroutine encodes a record and decodes the result, or decodes a query
InitRound ==
    /\ InitShared(Default)
    /\ pc = [g \in Procs |-> IF g = 1 THEN "lookup" ELSE "idle"]
    /\ \E c \in RoundCalls : call = [g \in Procs |-> IF g = 1 THEN c ELSE IdleCall]

NextRound == Next \/ \E g \in Procs : Redecode(g)

SpecRound == InitRound /\ [][NextRound]_vars

\* EncodeToPath of a record into a route template
PathCall(T, record, template) ==
    [NewCall("EncodeToPath", T, "GET", "", "", <<>>, <<>>, <<>>, NoPathParams, record)
        EXCEPT !.origPath = template, !.path = template]

Templates == {"/a", "/a/:id", "/:id/:id", "/a/:idx", "/:id/:idx", "/:idx/:id"}
PathValues == {"", "7", "9", ":id", "a:b", ":idx"}

PathCalls ==
    UNION {{PathCall(T, [p \in {<<1>>} |-> StrV(v)], t) : v \in PathValues, t \in Templates} :
              T \in {"Path", "Foo"}}
    \cup {PathCall("PathTwo", [p \in {<<1>>, <<2>>} |-> StrV(IF p = <<1>> THEN v ELSE w)], t) :
             v \in PathValues, w \in PathValues, t \in Templates}

\* one goroutine makes one call of Decode, EncodeToValues or EncodeToPath
InitPath ==
    /\ InitShared(Default)
    /\ pc = [g \in Procs |-> IF g = 1 THEN "lookup" ELSE "idle"]
    /\ \E c \in CacheCalls \cup PathCalls :
          call = [g \in Procs |-> IF g = 1 THEN c ELSE IdleCall]

NextPath == Next \/ \E g \in Procs : EncodePath(g)

SpecPath == InitPath /\ [][NextPath]_vars

\* every goroutine makes the same call, on one Configuration
TwinCalls == CacheCalls \cup SourceCalls
InitTwin ==
    /\ InitShared(Default)
    /\ pc = [g \in Procs |-> "lookup"]
    /\ \E c \in TwinCalls : call = [g \in Procs |-> c]

SpecTwin == InitTwin /\ [][Next]_vars

----------------------------------------------------------------------------
(* Properties *)

\* the phases of the merge that have assigned the field at path p
Phases(c, p) == {a[2] : a \in {x \in c.assigned : x[1] = p}}

\* the structMeta a call works with, once lookupStruct has returned
Schema(g) == heap[call[g].sm]

\* the last element of a non-empty sequence
Last(seq) == seq[Len(seq)]

\* what a JSON document leaves in a record when it is decoded into it
Decoded(c, doc) ==
    jsonDecodeStruct([dest |-> c.dest, set |-> {}, err |-> ""],
                     jsonTypeFields(c.typ, <<>>, 1), JSONRead(doc).members, FALSE).dest

C2_CompiledAtMostOnce == \A T \in RecordTypes : compiled[T] <= 1

\* C2, amended: a lookupStruct whose Load finds an entry for the type does not
\* compile it; only the calls whose Load precedes the first store compile, each
\* of them once, so that a type is compiled at most once per concurrent first
\* use
C2_HitDoesNotCompile ==
    /\ [](\A T \in RecordTypes :
            compiled[T] <= Cardinality({g \in Procs : call[g].typ = T}))
    /\ [][\A g \in Procs :
            (pc[g] = "lookup" /\ structCache[call[g].typ] # 0 /\ pc'[g] # "lookup") =>
                (compiled' = compiled /\ pc'[g] # "examine"
                 /\ call'[g].sm = structCache[call[g].typ])]_vars

\* two calls on one type have returned and the type was compiled once
C2_Witness ==
    \E g1, g2 \in Procs :
        /\ g1 # g2 /\ call[g1].typ = call[g2].typ
        /\ pc[g1] = "done" /\ pc[g2] = "done"
        /\ compiled[call[g1].typ] = 1
        /\ call[g1].sm = call[g2].sm

\* C3: the cache holds one structMeta per record type from the first store on:
\* an entry is never replaced, no structMeta changes once it is allocated, and
\* the structMeta a call works with equals the one the cache retains
C3_CacheEntryStable ==
    /\ [](\A g \in Procs :
            pc[g] \in {"body", "dispatch", "form", "fallback", "named", "unnamed",
                       "encode", "done"} =>
                /\ structCache[call[g].typ] # 0
                /\ heap[structCache[call[g].typ]] = Schema(g))
    /\ [][/\ \A T \in RecordTypes :
                structCache[T] # 0 => structCache'[T] = structCache[T]
          /\ \A a \in DOMAIN heap : heap'[a] = heap[a]]_vars

\* two calls compiled one type, and the cache kept the structMeta of the first
\* to store
C3_Witness ==
    \E g1, g2 \in Procs :
        /\ call[g1].typ = call[g2].typ
        /\ pc[g1] = "done" /\ pc[g2] = "done"
        /\ call[g1].sm # call[g2].sm
        /\ compiled[call[g1].typ] = 2
        /\ structCache[call[g1].typ] = call[g1].sm

\* whether the schema has a field that takes its value from the JSON document
BodySourced(sm) == sm.HasBodyForm \/ sm.HasFullBody

\* a request with a body of the JSON family, JSON allowed
JSONRequest(c) ==
    /\ c.op = "Decode"
    /\ ~isBodiless(c)
    /\ ParseMediaType(c.contentType) = jsonContentType
    /\ conf.AllowJSON

\* the fallback document step 6 takes up, "" when it takes none
FallbackDoc(c) ==
    IF ~c.isBodyParsed /\ conf.JSONBodyFallbackParam # ""
    THEN Get(c.form, conf.JSONBodyFallbackParam) ELSE ""

\* the request error of a JSON document that does not parse
JSONInputError(doc) == Error(StatusBadRequest, "JSON input", JSONRead(doc).err)

\* whether goroutine g takes the step of DecodeVal at position at
Takes(g, at) == pc[g] = at /\ pc'[g] # at

\* C4: with a malformed JSON body (JSON content type, not GET/HEAD, JSON
\* allowed) step 4 ends the call with the request error 400 "JSON input" when
\* the schema has a body-sourced field, and without one it decodes nothing and
\* goes on; a call on a record without named fields then returns no error.
\* Step 6 does the same with a malformed fallback document.
C4_MalformedJSON ==
    /\ [][\A g \in Procs :
            (Takes(g, "dispatch") /\ JSONRequest(call[g]) /\ ~JSONRead(call[g].sent).ok) =>
                IF BodySourced(Schema(g))
                THEN /\ pc'[g] = "done"
                     /\ call'[g].err = JSONInputError(call[g].sent)
                ELSE /\ call'[g].decoded = {}
                     /\ call'[g].dest = call[g].dest
                     /\ queryError(call[g]) = "" => (pc'[g] = "form" /\ ~Failed(call'[g]))]_vars
    /\ [][\A g \in Procs :
            (Takes(g, "fallback") /\ FallbackDoc(call[g]) # ""
                /\ ~JSONRead(FallbackDoc(call[g])).ok) =>
                IF BodySourced(Schema(g))
                THEN /\ pc'[g] = "done"
                     /\ call'[g].err = JSONInputError(FallbackDoc(call[g]))
                ELSE /\ call'[g].decoded = {}
                     /\ call'[g].dest = call[g].dest
                     /\ pc'[g] = "named" /\ ~Failed(call'[g])]_vars
    /\ [](\A g \in Procs :
            (pc[g] = "done" /\ JSONRequest(call[g]) /\ ~JSONRead(call[g].sent).ok
                /\ ~BodySourced(Schema(g)) /\ DOMAIN Schema(g).NamedFields = {}
                /\ queryError(call[g]) = "") =>
                (~Failed(call[g]) /\ call[g].decoded = {}))

\* a call on a record with a body-sourced field has returned 400 "JSON input"
\* for the malformed body it was sent
C4_Witness ==
    \E g \in Procs :
        /\ pc[g] = "done" /\ JSONRequest(call[g]) /\ call[g].sent = BodyInvalid
        /\ Schema(g).HasBodyForm
        /\ call[g].err = JSONInputError(BodyInvalid)
        /\ ErrorText(call[g].err) =
              "HTTP 400 JSON input: invalid character looking for beginning of value"

\* C5: a call that returns without error has given every rawbody field the
\* bytes the request was sent with, as bytes or as a string by the field's
\* kind; and on a schema with a rawbody field the JSON decode and the
\* URL-encoded form parse of step 4 still work on the whole of those bytes
C5_RawBodyExact ==
    \A g \in Procs :
        (call[g].op = "Decode" /\ pc[g] \in {"form", "done"} /\ ~Failed(call[g])
            /\ Schema(g).HasRawBody) =>
            /\ pc[g] = "done" =>
                  \A i \in DOMAIN Schema(g).UnnamedFields :
                      Schema(g).UnnamedFields[i].Source = rawBodySrc =>
                          call[g].dest[Schema(g).UnnamedFields[i].fieldIdx] =
                              [k |-> FieldAt(call[g].typ,
                                             Schema(g).UnnamedFields[i].fieldIdx).typ,
                               s |-> call[g].sent, i |-> 0, m |-> <<>>]
            /\ (pc[g] = "form" /\ JSONRequest(call[g]) /\ Schema(g).HasBodyForm) =>
                  /\ call[g].decoded = {"json"}
                  /\ call[g].dest =
                        Decoded([call[g] EXCEPT !.dest = ZeroRecord(call[g].typ)], call[g].sent)
            /\ (pc[g] = "form" /\ call[g].mtype = formContentType
                    /\ call[g].method \in {"POST", "PUT", "PATCH"}) =>
                  call[g].form = ParseQueryText(call[g].sent) \o queryPairs(call[g])

\* a call has returned with the body text in its rawbody field and the body's
\* member foo in its field Foo
C5_Witness ==
    \E g \in Procs :
        /\ pc[g] = "done" /\ ~Failed(call[g])
        /\ call[g].typ = "RawFoo" /\ call[g].sent = BodyFooBar
        /\ call[g].decoded = {"json"}
        /\ call[g].dest[<<1>>] = StrV(BodyFooBar)
        /\ call[g].dest[<<2>>] = StrV("bar")

\* the case of C6: a record with a fullbody field and JSON-named form fields,
\* and a JSON request whose body is a document that the record accepts
FullBodyCase(g) ==
    /\ JSONRequest(call[g]) /\ JSONRead(call[g].sent).ok
    /\ Schema(g).HasFullBody /\ Schema(g).HasBodyForm
    /\ queryError(call[g]) = ""
    /\ jsonDecodeStruct([dest |-> call[g].dest, set |-> {}, err |-> ""],
                        jsonTypeFields(call[g].typ, <<>>, 1),
                        JSONRead(call[g].sent).members,
                        disallowUnknown(conf, call[g])).err = ""

\* C6: in that case step 4 succeeds, the generic value it keeps for the
\* fullbody field is the whole document and the record holds the document's
\* members; a call that returns without error has the generic value of the
\* whole document in its fullbody field
C6_FullBodyAndFields ==
    /\ [][\A g \in Procs :
            (Takes(g, "dispatch") /\ FullBodyCase(g)) =>
                /\ pc'[g] = "form" /\ ~Failed(call'[g])
                /\ call'[g].fullBody = jsonGeneric(JSONRead(call[g].sent).members)
                /\ call'[g].dest = Decoded(call[g], call[g].sent)]_vars
    /\ [](\A g \in Procs :
            (pc[g] = "done" /\ ~Failed(call[g]) /\ call[g].op = "Decode"
                /\ "json" \in call[g].decoded /\ Schema(g).HasFullBody) =>
                \A i \in DOMAIN Schema(g).UnnamedFields :
                    Schema(g).UnnamedFields[i].Source = fullBodySrc =>
                        call[g].dest[Schema(g).UnnamedFields[i].fieldIdx] =
                            jsonGeneric(JSONRead(call[g].sent).members))

\* a call has returned with the object {"foo": "bar"} in its fullbody field
\* and "bar" in its field Foo
C6_Witness ==
    \E g \in Procs :
        /\ pc[g] = "done" /\ ~Failed(call[g])
        /\ call[g].typ = "FullFoo" /\ call[g].sent = BodyFooBar
        /\ call[g].dest[<<1>>] = ObjV(<< <<"foo", StrV("bar")>> >>)
        /\ call[g].dest[<<2>>] = StrV("bar")

\* the required header fields of a schema whose header the request lacks
MissingHeaders(c, sm) ==
    {n \in DOMAIN sm.NamedFields :
        /\ sm.NamedFields[n].Source = headerSrc
        /\ ~sm.NamedFields[n].Optional
        /\ Get(c.header, n) = ""}

\* the optional header fields of a schema whose header the request lacks
AbsentOptionalHeaders(c, sm) ==
    {n \in DOMAIN sm.NamedFields :
        /\ sm.NamedFields[n].Source = headerSrc
        /\ sm.NamedFields[n].Optional
        /\ Get(c.header, n) = ""}

\* C7: when the named fields of a record are required header fields that the
\* request lacks, the step over the named fields ends the call with a request
\* error whose text is "HTTP 400 missing header <name>"; when they are
\* optional header fields that the request lacks, the step succeeds and the
\* fields keep their zero values to the end of the call
C7_MissingHeader ==
    /\ [][\A g \in Procs :
            (Takes(g, "named") /\ call[g].op = "Decode"
                /\ DOMAIN Schema(g).NamedFields # {}) =>
                /\ DOMAIN Schema(g).NamedFields = MissingHeaders(call[g], Schema(g)) =>
                      /\ pc'[g] = "done"
                      /\ call'[g].err.code = StatusBadRequest
                      /\ ErrorText(call'[g].err) \in
                            {"HTTP 400 missing header " \o n :
                                n \in MissingHeaders(call[g], Schema(g))}
                /\ DOMAIN Schema(g).NamedFields = AbsentOptionalHeaders(call[g], Schema(g)) =>
                      /\ pc'[g] = "unnamed" /\ ~Failed(call'[g])
                      /\ call'[g].dest = call[g].dest]_vars
    /\ [](\A g \in Procs :
            (pc[g] = "done" /\ ~Failed(call[g]) /\ call[g].op = "Decode") =>
                \A n \in AbsentOptionalHeaders(call[g], Schema(g)) :
                    call[g].dest[Schema(g).NamedFields[n].fieldIdx] =
                        ZeroOf(FieldAt(call[g].typ, Schema(g).NamedFields[n].fieldIdx).typ))

\* a call on the record with the required header field X-Foo has returned the
\* error "HTTP 400 missing header X-Foo"
C7_Witness ==
    \E g \in Procs :
        /\ pc[g] = "done" /\ call[g].typ = "Hdr"
        /\ Get(call[g].header, "X-Foo") = ""
        /\ ErrorText(call[g].err) = "HTTP 400 missing header X-Foo"

\* C8, as stated: the text of the error of a missing required header X-Foo is
\* "[400] missing header X-Foo", and the text of the error of an unparsable
\* value of the int header field X-Foo is "[400] invalid X-Foo: " and the
\* text of the integer-parse error
C8_BracketedErrorText ==
    \A g \in Procs :
        (pc[g] = "done" /\ call[g].typ \in {"Hdr", "HdrInt"} /\ call[g].err.code # 0
            /\ call[g].mtype = "") =>
            /\ Get(call[g].header, "X-Foo") = "" =>
                  ErrorText(call[g].err) = "[400] missing header X-Foo"
            /\ Get(call[g].header, "X-Foo") # "" =>
                  ErrorText(call[g].err) =
                      "[400] invalid X-Foo: " \o ParseInt(Get(call[g].header, "X-Foo"), 0).err

\* a request of a content-type family that the Configuration does not allow
Disallowed(c) ==
    /\ c.op = "Decode"
    /\ ~isBodiless(c)
    /\ \/ ParseMediaType(c.contentType) = jsonContentType /\ ~conf.AllowJSON
       \/ ParseMediaType(c.contentType) = formContentType /\ ~conf.AllowForm
       \/ ParseMediaType(c.contentType) = multipartFormContentType /\ ~conf.AllowMultipart

\* C9, as stated: a request of a family that the Configuration does not allow
\* is past step 4 only as a call that has failed with status 415, and with no
\* destination field assigned
C9_PolicyEnforced ==
    \A g \in Procs :
        (Disallowed(call[g])
            /\ pc[g] \in {"form", "fallback", "named", "unnamed", "done"}) =>
            /\ call[g].err.code = StatusUnsupportedMediaType
            /\ call[g].assigned = {}

\* C10, as stated, for the schemas with a body-sourced field: step 6 decodes
\* the fallback document exactly when step 4 has not completed a JSON decode,
\* the Configuration has a fallback key, and the form/query map has a
\* non-empty value under that key
C10_FallbackIffAnyValue ==
    [][\A g \in Procs :
        (Takes(g, "fallback") /\ BodySourced(Schema(g))) =>
            ("fallback" \in call'[g].decoded <=>
                /\ ~call[g].isBodyParsed
                /\ conf.JSONBodyFallbackParam # ""
                /\ \E i \in DOMAIN call[g].form :
                      /\ call[g].form[i][1] = conf.JSONBodyFallbackParam
                      /\ call[g].form[i][2] # "")]_vars

\* whether a document has a member that the record type has no field for
HasUnknownMember(c, doc) ==
    \E i \in DOMAIN JSONRead(doc).members :
        jsonFieldFor(jsonTypeFields(c.typ, <<>>, 1), JSONRead(doc).members[i][1]) = 0

\* C10, amended: step 6 decodes the fallback document exactly when step 4 has
\* not completed a JSON decode, the Configuration has a fallback key, the first
\* value under that key in the form/query map is not empty, and the schema has
\* a body-sourced field.  The document is decoded as a JSON body is: its
\* members go into the record, an unknown member is the error 400 "JSON
\* input" under the unknown-field policy, and the generic value of the
\* document is kept for the fullbody field.  No call decodes both the body and
\* the fallback document.
C10_FallbackIffFirstValue ==
    /\ [][\A g \in Procs :
            Takes(g, "fallback") =>
                /\ "fallback" \in call'[g].decoded <=>
                      (FallbackDoc(call[g]) # "" /\ BodySourced(Schema(g)))
                /\ ("fallback" \in call'[g].decoded /\ JSONRead(FallbackDoc(call[g])).ok) =>
                      /\ Schema(g).HasBodyForm =>
                            call'[g].dest = Decoded(call[g], FallbackDoc(call[g]))
                      /\ (Schema(g).HasBodyForm /\ disallowUnknown(conf, call[g])
                            /\ HasUnknownMember(call[g], FallbackDoc(call[g]))) =>
                            /\ pc'[g] = "done"
                            /\ call'[g].err.code = StatusBadRequest
                            /\ call'[g].err.message = "JSON input"
                      /\ (Schema(g).HasFullBody /\ ~Failed(call'[g])) =>
                            call'[g].fullBody =
                                jsonGeneric(JSONRead(FallbackDoc(call[g])).members)]_vars
    /\ [](\A g \in Procs : call[g].decoded \in {{}, {"json"}, {"fallback"}})

\* a call with a URL-encoded body has returned with the member foo of the
\* fallback document of the query string in its field Foo
C10_Witness ==
    \E g \in Procs :
        /\ pc[g] = "done" /\ ~Failed(call[g])
        /\ call[g].typ = "Foo" /\ call[g].mtype = formContentType
        /\ call[g].decoded = {"fallback"}
        /\ Get(call[g].form, "_body") = BodyFooQux
        /\ call[g].dest[<<1>>] = StrV("qux")

\* C11: a GET or HEAD request goes the way of a request without a content
\* type, whatever its Content-Type header: the body is not read by a JSON
\* decoder or a form parser, the call never fails with status 415, r.Form is
\* the query string's pairs, and after step 5 a form field whose key is in the
\* query string holds the parse of the key's last value there
C11_BodilessQueryOnly ==
    \A g \in Procs :
        (call[g].op = "Decode" /\ isBodiless(call[g])
            /\ pc[g] \in {"dispatch", "form", "fallback", "named", "unnamed", "done"}) =>
            /\ call[g].mtype = ""
            /\ "json" \notin call[g].decoded
            /\ ~call[g].bodyRead
            /\ call[g].err.code # StatusUnsupportedMediaType
            /\ call[g].form \in {<<>>, queryPairs(call[g])}
            /\ pc[g] \in {"form", "fallback", "named", "unnamed"} =>
                  call[g].form = queryPairs(call[g])
            /\ pc[g] = "fallback" =>
                  /\ {a[1] : a \in call[g].assigned} =
                        {Schema(g).NamedFields[n].fieldIdx :
                            n \in {k \in Keys(queryPairs(call[g])) \cap
                                        DOMAIN Schema(g).NamedFields :
                                      Schema(g).NamedFields[k].Source = formSrc}}
                  /\ \A n \in Keys(queryPairs(call[g])) \cap DOMAIN Schema(g).NamedFields :
                        Schema(g).NamedFields[n].Source = formSrc =>
                            call[g].dest[Schema(g).NamedFields[n].fieldIdx] =
                                Parse(Schema(g).NamedFields[n].Parse,
                                      Last(ValuesOf(queryPairs(call[g]), n))).v

\* a GET request with a JSON content type and the body {"foo":"bar"} has
\* returned with the query string's value in the field Foo and nothing decoded
C11_Witness ==
    \E g \in Procs :
        /\ pc[g] = "done" /\ ~Failed(call[g])
        /\ call[g].typ = "Foo" /\ call[g].method = "GET"
        /\ ParseMediaType(call[g].contentType) = jsonContentType
        /\ call[g].sent = BodyFooBar
        /\ call[g].query = << <<"foo", "q">> >>
        /\ call[g].decoded = {}
        /\ call[g].dest[<<1>>] = StrV("q")

\* the named fields of a schema that are path fields, by what the path
\* parameters hold for them
PathFields(sm) == {n \in DOMAIN sm.NamedFields : sm.NamedFields[n].Source = pathSrc}
MissingPaths(c, sm) ==
    {n \in PathFields(sm) : pathParam(c, n) = "" /\ ~sm.NamedFields[n].Optional}
BadPaths(c, sm) ==
    {n \in PathFields(sm) :
        pathParam(c, n) # "" /\ ~Parse(sm.NamedFields[n].Parse, pathParam(c, n)).ok}

SameInput(c, d) ==
    /\ c.op = d.op /\ c.typ = d.typ
    /\ c.method = d.method /\ c.contentType = d.contentType /\ c.sent = d.sent
    /\ c.query = d.query /\ c.header = d.header /\ c.cookies = d.cookies
    /\ c.pathParams = d.pathParams

Ended(g) == pc[g] \in {"done", "panic"}

\* C13: two Decode calls with the same Configuration, record type, path
\* parameters and request that have both ended have ended the same way: both
\* returned normally with the same request error (or none), or both aborted
C13_SameOutcome ==
    \A g, h \in Procs :
        (Ended(g) /\ Ended(h) /\ call[g].op = "Decode" /\ SameInput(call[g], call[h])) =>
            /\ pc[g] = pc[h]
            /\ call[g].err = call[h].err
            /\ (call[g].panic = "") = (call[h].panic = "")

\* the paths of the fields of a schema that a source binds
FieldsOf(sm, src) ==
    {sm.NamedFields[n].fieldIdx : n \in {k \in DOMAIN sm.NamedFields : sm.NamedFields[k].Source = src}}

\* C14: the step over the named fields takes the path fields first, then the
\* header fields, then the cookie fields, and stops at the first failure: a
\* missing required path parameter aborts the call whatever the headers and
\* cookies are, a missing required header (the path fields being in order) is
\* the error returned whatever the cookies are, no header or cookie field is
\* assigned when a path field fails, and no cookie field is assigned when a
\* header field fails
C14_NamedPhaseOrder ==
    [][\A g \in Procs :
        (Takes(g, "named") /\ call[g].op = "Decode") =>
            /\ (MissingPaths(call[g], Schema(g)) # {} /\ BadPaths(call[g], Schema(g)) = {}) =>
                  /\ pc'[g] = "panic"
                  /\ \A p \in FieldsOf(Schema(g), headerSrc) \cup FieldsOf(Schema(g), cookieSrc) :
                        Phases(call'[g], p) = {}
            /\ (MissingPaths(call[g], Schema(g)) = {} /\ BadPaths(call[g], Schema(g)) = {}
                    /\ MissingHeaders(call[g], Schema(g)) # {}) =>
                  /\ pc'[g] = "done"
                  /\ call'[g].err \in
                        {Error(StatusBadRequest, "missing header " \o n, "") :
                            n \in MissingHeaders(call[g], Schema(g))}
                  /\ \A p \in FieldsOf(Schema(g), cookieSrc) : Phases(call'[g], p) = {}]_vars

\* the record types with one form field of a scalar kind
ScalarTypes == {KindType(k) : k \in ScalarKinds}

\* a call that decodes what EncodeToValues wrote from a record
IsRedecode(c) == c.op = "Decode" /\ c.orig # EmptyMap

\* C15: decoding the GET request whose query is what EncodeToValues wrote for a
\* record with a form field of a scalar kind (string, bool, an integer kind)
\* never fails, and when it is done the field holds the value the record had
C15_RoundTrip ==
    \A g \in Procs :
        (IsRedecode(call[g]) /\ call[g].typ \in ScalarTypes) =>
            /\ ~Failed(call[g])
            /\ pc[g] = "done" => call[g].dest = call[g].orig

\* the round trip of a uint64 above the int64 range and of the least int64 is done
C15_Witness ==
    /\ \E g \in Procs :
          /\ pc[g] = "done" /\ IsRedecode(call[g]) /\ call[g].typ = KindType("uint64")
          /\ call[g].orig[<<1>>] = NumV("uint64", 0, MaxUint(64))
          /\ call[g].query = << <<"foo", "18446744073709551615">> >>
          /\ call[g].dest[<<1>>] = call[g].orig[<<1>>]

\* a base-10 numeral of a kind: digits, for a signed kind after an optional sign
NumeralBody(kind, s) ==
    IF kind \in SignedKinds /\ s # "" /\ CharAt(s, 1) \in {"+", "-"}
    THEN SubSeq(s, 2, Len(s)) ELSE s
IsNumeral(kind, s) ==
    /\ NumeralBody(kind, s) # ""
    /\ \A i \in 1..Len(NumeralBody(kind, s)) : IsDigit(CharAt(NumeralBody(kind, s), i))
NumeralNeg(kind, s) == IF kind \in SignedKinds /\ CharAt(s, 1) = "-" THEN 1 ELSE 0
NumeralMag(kind, s) == Canon(StrDigits(NumeralBody(kind, s)))
\* -2^(w-1) <= value < 2^(w-1) for a signed kind, 0 <= value < 2^w for an unsigned one
InRange(kind, neg, mag) ==
    IF kind \in SignedKinds
    THEN IF neg = 1 THEN ~Less(IntCutoff(BitSize(KindBits(kind))), mag)
         ELSE Less(mag, IntCutoff(BitSize(KindBits(kind))))
    ELSE ~Less(MaxUint(BitSize(KindBits(kind))), mag)

\* a finished call that decoded the query foo=<text> into a field of an integer kind
NumeralCall(g) ==
    /\ pc[g] = "done" /\ call[g].op = "Decode" /\ ~IsRedecode(call[g])
    /\ call[g].typ \in {KindType(k) : k \in IntegerKinds}
NumeralKind(g) == FieldAt(call[g].typ, <<1>>).typ
NumeralText(g) == call[g].query[1][2]

\* C16: decoding ?foo=<text> into a field of an integer kind gives 0 without
\* error for the empty text, exactly the value of a base-10 numeral that lies
\* in the kind's range, and for a numeral outside the range a status-400 error
\* that names the range, the field keeping its zero value
C16_IntegerParsers ==
    \A g \in Procs :
        NumeralCall(g) =>
            /\ NumeralText(g) = "" =>
                  ~Failed(call[g]) /\ call[g].dest[<<1>>] = NumV(NumeralKind(g), 0, <<0>>)
            /\ (IsNumeral(NumeralKind(g), NumeralText(g))
                    /\ InRange(NumeralKind(g), NumeralNeg(NumeralKind(g), NumeralText(g)),
                               NumeralMag(NumeralKind(g), NumeralText(g)))) =>
                  /\ ~Failed(call[g])
                  /\ call[g].dest[<<1>>] =
                        NumV(NumeralKind(g), NumeralNeg(NumeralKind(g), NumeralText(g)),
                             NumeralMag(NumeralKind(g), NumeralText(g)))
            /\ (IsNumeral(NumeralKind(g), NumeralText(g))
                    /\ ~InRange(NumeralKind(g), NumeralNeg(NumeralKind(g), NumeralText(g)),
                                NumeralMag(NumeralKind(g), NumeralText(g)))) =>
                  /\ call[g].panic = ""
                  /\ call[g].err =
                        Error(StatusBadRequest, "",
                              "invalid foo: "
                                 \o NumError(IF NumeralKind(g) \in SignedKinds
                                             THEN "ParseInt" ELSE "ParseUint",
                                             NumeralText(g), "value out of range"))
                  /\ call[g].dest[<<1>>] = NumV(NumeralKind(g), 0, <<0>>)

\* a uint64 field holds 2^64-1 after ?foo=18446744073709551615
C16_Witness ==
    \E g \in Procs :
        /\ NumeralCall(g)
        /\ NumeralKind(g) = "uint64" /\ NumeralText(g) = "18446744073709551615"
        /\ call[g].dest[<<1>>] = NumV("uint64", 0, MaxUint(64))

\* the record types with one form field of a slice type, and the list-item
\* separator the field's form tag selects
ListTypes == {"List", "ListComma", "ListInts"}
SepOf(T) ==
    CASE T = "ListComma" -> ","
      [] T = "ListInts" -> ":"
      [] OTHER -> " "

\* the items of a text: the fields between runs of white space, or the
\* pieces between occurrences of the separator
RECURSIVE splitFrom(_, _, _, _)
splitFrom(s, sep, i, cur) ==
    IF i > Len(s) THEN <<cur>>
    ELSE IF CharAt(s, i) = sep THEN <<cur>> \o splitFrom(s, sep, i + 1, "")
    ELSE splitFrom(s, sep, i + 1, cur \o CharAt(s, i))
ItemsOf(s, sep) == IF sep = " " THEN Fields(s) ELSE splitFrom(s, sep, 1, "")

RECURSIVE JoinWith(_, _, _)
JoinWith(strs, sep, i) ==
    IF i > Len(strs) THEN ""
    ELSE (IF i > 1 THEN sep ELSE "") \o strs[i] \o JoinWith(strs, sep, i + 1)

\* C17: a slice field is parsed by splitting the value on the field's
\* separator and written by joining the items with it: a finished decode of
\* ?foo=<text> has stored one item for every piece of the text between
\* separators (white space without a selector), and EncodeToValues has written
\* the items joined with the separator
C17_SeparatorHonoured ==
    \A g \in Procs :
        /\ (pc[g] = "done" /\ call[g].op = "Decode" /\ ~IsRedecode(call[g])
                /\ call[g].typ \in ListTypes /\ ~Failed(call[g])
                /\ call[g].query[1][2] # "") =>
              Len(call[g].dest[<<1>>].m) = Len(ItemsOf(call[g].query[1][2], SepOf(call[g].typ)))
        /\ (pc[g] = "done" /\ call[g].op = "EncodeToValues" /\ call[g].typ \in ListTypes
                /\ ~Failed(call[g])) =>
              call[g].form["foo"] =
                  JoinWith([i \in 1..Len(call[g].dest[<<1>>].m) |->
                               stringifyScalar(Elem(FieldAt(call[g].typ, <<1>>).typ),
                                               call[g].dest[<<1>>].m[i])],
                           SepOf(call[g].typ), 1)

\* the fields of a record type that examineField binds to a named source
NamedPaths(cf, T) ==
    {p \in LeafPaths(T, <<>>, 1) :
        /\ examineField(cf, p, FieldAt(T, p)).out = "emit"
        /\ IsNamed(examineField(cf, p, FieldAt(T, p)).fm.Source)}

\* C18: the schema a call works with holds, for every named field of the
\* record type, a binding of that field under the field's declared name
C18_EveryNamedFieldBound ==
    \A g \in Procs :
        call[g].sm # 0 =>
            \A p \in NamedPaths(conf, call[g].typ) :
                LET name == examineField(conf, p, FieldAt(call[g].typ, p)).fm.name IN
                /\ name \in DOMAIN Schema(g).NamedFields
                /\ Schema(g).NamedFields[name].fieldIdx = p

\* the fields a schema binds to a source other than form
NonFormFields(sm) ==
    {sm.NamedFields[n].fieldIdx : n \in {k \in DOMAIN sm.NamedFields : sm.NamedFields[k].Source # formSrc}}
    \cup {sm.UnnamedFields[i].fieldIdx : i \in DOMAIN sm.UnnamedFields}

\* C19: under a Configuration that allows JSON, no field that the schema of
\* a call binds to a source other than form has been assigned by the decode
\* of a JSON body or of a fallback document into the record
C19_NonFormNeverFromJSON ==
    \A g \in Procs :
        (call[g].sm # 0 /\ conf.AllowJSON) =>
            \A p \in NonFormFields(Schema(g)) :
                Phases(call[g], p) \cap {"json", "fallback"} = {}

\* the fields of a record type whose form-tag name is "-"
SkippedPaths(T) ==
    {p \in LeafPaths(T, <<>>, 1) : FieldAt(T, p).form # NoTag /\ FieldAt(T, p).form[1] = "-"}
BoundPaths(sm) ==
    {sm.NamedFields[n].fieldIdx : n \in DOMAIN sm.NamedFields}
    \cup {sm.UnnamedFields[i].fieldIdx : i \in DOMAIN sm.UnnamedFields}

\* C20: a field whose form-tag name is "-" has no binding in the schema, a
\* record type with no other field has none of the schema's flags set, and no
\* phase of a Decode call has assigned the field: it holds its zero value
C20_SkippedFieldUntouched ==
    \A g \in Procs :
        (call[g].sm # 0 /\ call[g].op = "Decode") =>
            /\ SkippedPaths(call[g].typ) \cap BoundPaths(Schema(g)) = {}
            /\ SkippedPaths(call[g].typ) = LeafPaths(call[g].typ, <<>>, 1) =>
                  Schema(g) = EmptySM
            /\ \A p \in SkippedPaths(call[g].typ) :
                  /\ Phases(call[g], p) = {}
                  /\ call[g].dest[p] = ZeroOf(FieldAt(call[g].typ, p).typ)

\* text occurs in s
Occurs(s, text) ==
    \E i \in 1..Len(s) : i + Len(text) - 1 <= Len(s) /\ SubSeq(s, i, i + Len(text) - 1) = text

\* the names of the path fields of the schema of a call
PathNames(g) == PathFields(Schema(g))

\* C21: EncodeToPath aborts exactly when the placeholder of some path field
\* does not occur in the template, whatever the order of the fields, and for
\* a record with one path field it returns the template with every
\* occurrence of the placeholder replaced by the field's value
C21_EncodeToPath ==
    \A g \in Procs :
        (call[g].op = "EncodeToPath" /\ Ended(g)) =>
            /\ (pc[g] = "panic") =
                  (\E n \in PathNames(g) : ~Occurs(call[g].origPath, ":" \o n))
            /\ (pc[g] = "done" /\ Cardinality(PathNames(g)) = 1) =>
                  \A n \in PathNames(g) :
                      call[g].path =
                          ReplaceAll(call[g].origPath, ":" \o n,
                                     call[g].dest[Schema(g).NamedFields[n].fieldIdx].s)

\* a Decode call of a request with a body method whose Content-Type parses to
\* a media type the switch has no case for
OtherMediaType(c) ==
    /\ c.op = "Decode" /\ ~isBodiless(c)
    /\ determineMIMEType(c) \notin
          {"", jsonContentType, formContentType, multipartFormContentType}

\* the header fields of a schema whose header the request carries
PresentHeaders(c, sm) ==
    {n \in DOMAIN sm.NamedFields :
        sm.NamedFields[n].Source = headerSrc /\ Get(c.header, n) # ""}

\* C22: a call with a body method and a media type other than JSON,
\* urlencoded form and multipart never holds a parsed form or query map, never
\* decodes a body or a fallback document, assigns no field in the JSON, form
\* or fallback phase, and does not fail before the named fields are reached
\* (so never for the content type); a call that ends without error has
\* assigned its header fields from the headers the request carries
C22_OtherMediaType ==
    \A g \in Procs :
        OtherMediaType(call[g]) =>
            /\ call[g].form = <<>> /\ call[g].decoded = {}
            /\ \A a \in call[g].assigned : a[2] \notin {"json", "form", "fallback"}
            /\ pc[g] \in {"body", "dispatch", "form", "fallback", "named"} => ~Failed(call[g])
            /\ call[g].err.code # StatusUnsupportedMediaType
            /\ (pc[g] = "done" /\ ~Failed(call[g])) =>
                  \A n \in PresentHeaders(call[g], Schema(g)) :
                      "header" \in Phases(call[g], Schema(g).NamedFields[n].fieldIdx)

\* a text/plain POST with ?foo=q and the fallback key in the query has ended
\* without error and without a value in the form field foo
C22_Witness ==
    \E g \in Procs :
        /\ pc[g] = "done" /\ OtherMediaType(call[g]) /\ ~Failed(call[g])
        /\ call[g].typ = "Foo" /\ call[g].contentType = "text/plain"
        /\ call[g].query = << <<"foo", "q">>, <<"_body", BodyFooQux>> >>
        /\ call[g].dest[<<1>>] = StrV("")

\* a text/plain POST has assigned the header field X-Foo
C22_HeaderWitness ==
    \E g \in Procs :
        /\ pc[g] = "done" /\ OtherMediaType(call[g]) /\ ~Failed(call[g])
        /\ call[g].typ = "Hdr" /\ call[g].dest[<<1>>] = StrV(Get(call[g].header, "X-Foo"))
        /\ Get(call[g].header, "X-Foo") # ""

\* the form fields of a schema that are marked notinbody
NotInBodyFields(sm) ==
    {n \in DOMAIN sm.NamedFields :
        sm.NamedFields[n].Source = formSrc /\ sm.NamedFields[n].NotInBody}

\* C23: no field marked notinbody has been assigned by the decode of a JSON
\* body or of a fallback document, and HasBodyForm is true exactly when the
\* record type has a form field that is not marked notinbody
C23_NotInBodyExcluded ==
    \A g \in Procs :
        call[g].sm # 0 =>
            /\ \A n \in NotInBodyFields(Schema(g)) :
                  Phases(call[g], Schema(g).NamedFields[n].fieldIdx)
                      \cap {"json", "fallback"} = {}
            /\ Schema(g).HasBodyForm =
                  (\E p \in NamedPaths(conf, call[g].typ) :
                      /\ examineField(conf, p, FieldAt(call[g].typ, p)).fm.Source = formSrc
                      /\ ~examineField(conf, p, FieldAt(call[g].typ, p)).fm.NotInBody)

\* the form fields of a schema that a key of the merged form/query map names
FormKeyFields(c, sm) ==
    {n \in DOMAIN sm.NamedFields \cap Keys(c.form) : sm.NamedFields[n].Source = formSrc}

\* the fields a step has changed or recorded an assignment of
Touched(c, c2) ==
    {p \in DOMAIN c.dest : c2.dest[p] # c.dest[p]}
    \cup {a[1] : a \in c2.assigned \ c.assigned}

\* C24: the step over the merged form/query map changes only form fields
\* that a key of the map names, and changes nothing of the call, error
\* included, when no key names a form field
C24_FormKeysOnly ==
    [][\A g \in Procs :
          pc[g] = "form" /\ pc'[g] # "form" =>
              /\ \A p \in Touched(call[g], call'[g]) :
                    \E n \in FormKeyFields(call[g], Schema(g)) :
                        Schema(g).NamedFields[n].fieldIdx = p
              /\ FormKeyFields(call[g], Schema(g)) = {} => call'[g] = call[g]]_vars

\* a call whose query names the path field and the cookie field has gone
\* through the form step and ended with the router's and the cookie's values
C24_Witness ==
    \E g \in Procs :
        /\ pc[g] = "done" /\ ~Failed(call[g]) /\ call[g].typ = "PathHdrCk"
        /\ {"id", "sid"} \subseteq Keys(call[g].form)
        /\ call[g].dest[<<1>>] = StrV("7")
        /\ call[g].dest[<<3>>] = IntV(5)
        /\ \A p \in DOMAIN call[g].dest : "form" \notin Phases(call[g], p)

\* the unnamed fields of a schema whose type the unnamed step cannot fill
BadUnnamed(c, sm) ==
    {i \in 1..Len(sm.UnnamedFields) :
        \/ /\ sm.UnnamedFields[i].Source = rawBodySrc
           /\ FieldAt(c.typ, sm.UnnamedFields[i].fieldIdx).typ \notin {"bytes", "string"}
        \/ /\ sm.UnnamedFields[i].Source = fullBodySrc
           /\ FieldAt(c.typ, sm.UnnamedFields[i].fieldIdx).typ # "any"}

\* C25: a Decode call on a compiled record type whose rawbody and fullbody
\* fields have the types the unnamed step accepts, with every required path
\* parameter supplied, never aborts
C25_NoAbortFromRequest ==
    \A g \in Procs :
        /\ call[g].op = "Decode" /\ call[g].sm # 0
        /\ BadUnnamed(call[g], Schema(g)) = {}
        /\ MissingPaths(call[g], Schema(g)) = {}
        => call[g].panic = ""

\* the fields of a record type tagged json:"-" that carry no form tag and
\* whose type gives them no source
JSONSkippedPaths(T) ==
    {p \in LeafPaths(T, <<>>, 1) :
        /\ FieldAt(T, p).json = <<"-">> /\ FieldAt(T, p).form = NoTag
        /\ typeSource(FieldAt(T, p).typ) = noSrc}

\* C26: under a Configuration that allows JSON, a field tagged json:"-"
\* without a form tag has no binding in the schema, a record type with no
\* other field has HasBodyForm false, and no phase of a Decode call has
\* assigned the field: it holds its zero value
C26_JSONDashSkipped ==
    \A g \in Procs :
        (call[g].sm # 0 /\ call[g].op = "Decode" /\ conf.AllowJSON) =>
            /\ JSONSkippedPaths(call[g].typ) \cap BoundPaths(Schema(g)) = {}
            /\ JSONSkippedPaths(call[g].typ) = LeafPaths(call[g].typ, <<>>, 1) =>
                  ~Schema(g).HasBodyForm
            /\ \A p \in JSONSkippedPaths(call[g].typ) :
                  /\ Phases(call[g], p) = {}
                  /\ call[g].dest[p] = ZeroOf(FieldAt(call[g].typ, p).typ)

====
